---- MODULE Spec2Model ----
(***************************************************************************)
(* Record normalisation pipeline of hh_preprocess: the five handlers       *)
(* (column cleaning, job category, education, location, salary) acting on  *)
(* the table held by the pipeline context.                                 *)
(*                                                                         *)
(* A Python str is a sequence of one-character strings.  Characters        *)
(* outside ASCII are written by name: "cy_d" is the Cyrillic letter д,     *)
(* "CY_D" its capital, "nbsp" is U+00A0, "tab" is U+0009, "rouble" is ₽    *)
(* and "euro" is €.  A float x is stored as the integer 2x (field twice),  *)
(* which keeps the halves produced by averaging two integers exact.        *)
(***************************************************************************)
EXTENDS Integers, Sequences, FiniteSets, TLC

VARIABLES df, diag, fx, raised, ran, input, trace

vars == <<df, diag, fx, raised, ran, input, trace>>

---------------------------------------------------------------------------
(* Bounds of the model *)

MaxRows == 2

MaxFrags == 2

---------------------------------------------------------------------------
(* Values held by table cells *)

Str(s) == [kind |-> "str", s |-> s]

NaN == [kind |-> "nan"]

Float(twice) == [kind |-> "float", twice |-> twice]

Bool(b) == [kind |-> "bool", b |-> b]

IsStr(v) == v.kind = "str"

IsNaN(v) == v.kind = "nan"

---------------------------------------------------------------------------
(* Characters and the text utilities of utils/text.py *)

DigitChars == <<"0", "1", "2", "3", "4", "5", "6", "7", "8", "9">>

IsDigit(c) == \E i \in 1..10 : DigitChars[i] = c

DigitVal(c) == (CHOOSE i \in 1..10 : DigitChars[i] = c) - 1

IsSpace(c) == c \in {" ", "nbsp", "tab"}

CasePairs == {<<"A", "a">>, <<"B", "b">>, <<"C", "c">>, <<"D", "d">>, <<"E", "e">>, <<"F", "f">>, <<"G", "g">>, <<"H", "h">>, <<"I", "i">>, <<"J", "j">>, <<"K", "k">>, <<"L", "l">>, <<"M", "m">>, <<"N", "n">>, <<"O", "o">>, <<"P", "p">>, <<"Q", "q">>, <<"R", "r">>, <<"S", "s">>, <<"T", "t">>, <<"U", "u">>, <<"V", "v">>, <<"W", "w">>, <<"X", "x">>, <<"Y", "y">>, <<"Z", "z">>, <<"CY_A", "cy_a">>, <<"CY_B", "cy_b">>, <<"CY_V", "cy_v">>, <<"CY_G", "cy_g">>, <<"CY_D", "cy_d">>, <<"CY_E", "cy_e">>, <<"CY_YO", "cy_yo">>, <<"CY_ZH", "cy_zh">>, <<"CY_Z", "cy_z">>, <<"CY_I", "cy_i">>, <<"CY_J", "cy_j">>, <<"CY_K", "cy_k">>, <<"CY_L", "cy_l">>, <<"CY_M", "cy_m">>, <<"CY_N", "cy_n">>, <<"CY_O", "cy_o">>, <<"CY_P", "cy_p">>, <<"CY_R", "cy_r">>, <<"CY_S", "cy_s">>, <<"CY_T", "cy_t">>, <<"CY_U", "cy_u">>, <<"CY_F", "cy_f">>, <<"CY_H", "cy_h">>, <<"CY_C", "cy_c">>, <<"CY_CH", "cy_ch">>, <<"CY_SH", "cy_sh">>, <<"CY_SHCH", "cy_shch">>, <<"CY_HARD", "cy_hard">>, <<"CY_Y", "cy_y">>, <<"CY_SOFT", "cy_soft">>, <<"CY_EH", "cy_eh">>, <<"CY_YU", "cy_yu">>, <<"CY_YA", "cy_ya">>}

LowerOf == [u \in {p[1] : p \in CasePairs} |-> (CHOOSE p \in CasePairs : p[1] = u)[2]]

LowerChar(c) == IF c \in DOMAIN LowerOf THEN LowerOf[c] ELSE c

Lower(s) == [i \in 1..Len(s) |-> LowerChar(s[i])]

Contains(hay, needle) ==
    \E i \in 0..(Len(hay) - Len(needle)) : SubSeq(hay, i + 1, i + Len(needle)) = needle

StartsWith(s, prefix) ==
    Len(prefix) <= Len(s) /\ SubSeq(s, 1, Len(prefix)) = prefix

RECURSIVE CollapseSpaces(_)
CollapseSpaces(s) ==
    IF s = <<>> THEN <<>>
    ELSE IF IsSpace(Head(s))
         THEN IF Len(s) >= 2 /\ IsSpace(s[2])
              THEN CollapseSpaces(Tail(s))
              ELSE <<" ">> \o CollapseSpaces(Tail(s))
         ELSE <<Head(s)>> \o CollapseSpaces(Tail(s))

Strip(s) ==
    LET keep == {i \in 1..Len(s) : ~IsSpace(s[i])}
    IN  IF keep = {} THEN <<>>
        ELSE SubSeq(s, CHOOSE i \in keep : \A j \in keep : i <= j,
                       CHOOSE i \in keep : \A j \in keep : i >= j)

normalize_spaces(s) ==
    Strip(CollapseSpaces([i \in 1..Len(s) |-> IF s[i] = "nbsp" THEN " " ELSE s[i]]))

safe_lower(v) == IF ~IsStr(v) THEN <<>> ELSE Lower(normalize_spaces(v.s))

---------------------------------------------------------------------------
(* The table of the pipeline context: a row index and named columns, each  *)
(* column holding one cell per row.                                        *)

NoTable == [index |-> <<>>, cols |-> <<>>, loaded |-> FALSE]

Frame(index, cols) == [index |-> index, cols |-> cols, loaded |-> TRUE]

Column(name, data) == [name |-> name, data |-> data]

NRows(d) == Len(d.index)

HasColumn(d, name) == \E i \in 1..Len(d.cols) : d.cols[i].name = name

GetColumn(d, name) == d.cols[CHOOSE i \in 1..Len(d.cols) : d.cols[i].name = name].data

\* df[name] = data: an existing column is overwritten in place, a new one is appended
SetColumn(d, name, data) ==
    IF HasColumn(d, name)
    THEN [d EXCEPT !.cols = [i \in 1..Len(d.cols) |->
                                IF d.cols[i].name = name THEN Column(name, data) ELSE d.cols[i]]]
    ELSE [d EXCEPT !.cols = Append(d.cols, Column(name, data))]

\* df.drop(columns=names, errors="ignore")
DropColumns(d, names) ==
    [d EXCEPT !.cols = SelectSeq(d.cols, LAMBDA c : c.name \notin names)]

\* df[name] = scalar
Broadcast(d, v) == [i \in 1..NRows(d) |-> v]

\* next((c for c in df.columns if ...), None): hits are the positions that pass the test
None == <<>>

FirstColumn(d, hits) ==
    IF hits = {} THEN None
    ELSE d.cols[CHOOSE i \in hits : \A j \in hits : i <= j].name

\* names of the derived columns
ColSalaryCurrency == <<"s", "a", "l", "a", "r", "y", "_", "c", "u", "r", "r", "e", "n", "c", "y">> (* salary_currency *)

ColTargetSalaryRub == <<"t", "a", "r", "g", "e", "t", "_", "s", "a", "l", "a", "r", "y", "_", "r", "u", "b">> (* target_salary_rub *)

ColJobCategory == <<"j", "o", "b", "_", "c", "a", "t", "e", "g", "o", "r", "y">> (* job_category *)

ColCurrentJobCategory == <<"c", "u", "r", "r", "e", "n", "t", "_", "j", "o", "b", "_", "c", "a", "t", "e", "g", "o", "r", "y">> (* current_job_category *)

ColEducationLevel == <<"e", "d", "u", "c", "a", "t", "i", "o", "n", "_", "l", "e", "v", "e", "l">> (* education_level *)

ColEducationYear == <<"e", "d", "u", "c", "a", "t", "i", "o", "n", "_", "y", "e", "a", "r">> (* education_year *)

ColCity == <<"c", "i", "t", "y">>

ColRelocateReady == <<"r", "e", "l", "o", "c", "a", "t", "e", "_", "r", "e", "a", "d", "y">> (* relocate_ready *)

ColTripsReady == <<"t", "r", "i", "p", "s", "_", "r", "e", "a", "d", "y">> (* trips_ready *)

---------------------------------------------------------------------------
(* parse_salary.py *)

_SALARY_COL == <<"CY_Z", "CY_P">> (* ЗП *)

RUB == <<"R", "U", "B">>
USD == <<"U", "S", "D">>
EUR == <<"E", "U", "R">>
KZT == <<"K", "Z", "T">>
BYN == <<"B", "Y", "N">>
UAH == <<"U", "A", "H">>
UZS == <<"U", "Z", "S">>
GEL == <<"G", "E", "L">>
AMD == <<"A", "M", "D">>
AZN == <<"A", "Z", "N">>

_detect_currency_UsdFirst(s) ==
    LET t == Lower(s)
    IN  IF Contains(t, <<"u", "s", "d">>) \/ Contains(t, <<"$">>) THEN USD
        ELSE IF Contains(t, <<"cy_r", "cy_u", "cy_b">> (* руб *)) \/ Contains(t, <<"r", "u", "r">>) \/ Contains(t, <<"r", "u", "b">>)
                \/ Contains(t, <<"rouble">> (* ₽ *)) THEN RUB
        ELSE IF Contains(t, <<"e", "u", "r">>) \/ Contains(t, <<"euro">> (* € *)) THEN EUR
        ELSE IF Contains(t, <<"k", "z", "t">>) \/ Contains(t, <<"cy_t", "cy_e", "cy_n", "cy_g", "cy_e">> (* тенге *)) THEN KZT
        ELSE IF Contains(t, <<"b", "y", "n">>) \/ Contains(t, <<"cy_b", "cy_e", "cy_l">> (* бел *)) THEN BYN
        ELSE IF Contains(t, <<"u", "a", "h">>) \/ Contains(t, <<"cy_g", "cy_r", "cy_n">> (* грн *)) THEN UAH
        ELSE IF Contains(t, <<"u", "z", "s">>) \/ Contains(t, <<"cy_s", "cy_u", "cy_m">> (* сум *)) THEN UZS
        ELSE IF Contains(t, <<"g", "e", "l">>) \/ Contains(t, <<"cy_l", "cy_a", "cy_r", "cy_i">> (* лари *)) THEN GEL
        ELSE IF Contains(t, <<"a", "m", "d">>) \/ Contains(t, <<"cy_d", "cy_r", "cy_a", "cy_m">> (* драм *)) THEN AMD
        ELSE IF Contains(t, <<"a", "z", "n">>) \/ Contains(t, <<"cy_m", "cy_a", "cy_n", "cy_a", "cy_t">> (* манат *)) THEN AZN
        ELSE None

_detect_currency(s) ==
    LET t == Lower(s)
    IN  IF Contains(t, <<"cy_r", "cy_u", "cy_b">> (* руб *)) \/ Contains(t, <<"r", "u", "r">>) \/ Contains(t, <<"r", "u", "b">>)
           \/ Contains(t, <<"rouble">> (* ₽ *)) THEN RUB
        ELSE IF Contains(t, <<"u", "s", "d">>) \/ Contains(t, <<"$">>) THEN USD
        ELSE IF Contains(t, <<"e", "u", "r">>) \/ Contains(t, <<"euro">> (* € *)) THEN EUR
        ELSE IF Contains(t, <<"k", "z", "t">>) \/ Contains(t, <<"cy_t", "cy_e", "cy_n", "cy_g", "cy_e">> (* тенге *)) THEN KZT
        ELSE IF Contains(t, <<"b", "y", "n">>) \/ Contains(t, <<"cy_b", "cy_e", "cy_l">> (* бел *)) THEN BYN
        ELSE IF Contains(t, <<"u", "a", "h">>) \/ Contains(t, <<"cy_g", "cy_r", "cy_n">> (* грн *)) THEN UAH
        ELSE IF Contains(t, <<"u", "z", "s">>) \/ Contains(t, <<"cy_s", "cy_u", "cy_m">> (* сум *)) THEN UZS
        ELSE IF Contains(t, <<"g", "e", "l">>) \/ Contains(t, <<"cy_l", "cy_a", "cy_r", "cy_i">> (* лари *)) THEN GEL
        ELSE IF Contains(t, <<"a", "m", "d">>) \/ Contains(t, <<"cy_d", "cy_r", "cy_a", "cy_m">> (* драм *)) THEN AMD
        ELSE IF Contains(t, <<"a", "z", "n">>) \/ Contains(t, <<"cy_m", "cy_a", "cy_n", "cy_a", "cy_t">> (* манат *)) THEN AZN
        ELSE None

\* _NUM_RE = (\d[\d\s ]*): the end of the greedy match that starts at the digit s[i]
RECURSIVE NumRunEnd(_, _)
NumRunEnd(s, i) ==
    IF i < Len(s) /\ (IsDigit(s[i + 1]) \/ IsSpace(s[i + 1]))
    THEN NumRunEnd(s, i + 1)
    ELSE i

RECURSIVE ToInt(_)
ToInt(digits) ==
    IF digits = <<>> THEN 0
    ELSE 10 * ToInt(SubSeq(digits, 1, Len(digits) - 1)) + DigitVal(digits[Len(digits)])

\* raw.isdigit()
IsDigitStr(raw) == raw # <<>> /\ \A i \in 1..Len(raw) : IsDigit(raw[i])

RECURSIVE ExtractFrom(_, _)
ExtractFrom(s, i) ==
    IF i > Len(s) THEN <<>>
    ELSE IF IsDigit(s[i])
         THEN LET j   == NumRunEnd(s, i)
                  raw == SelectSeq(SubSeq(s, i, j), LAMBDA c : c \notin {"nbsp", " "})
              IN  (IF IsDigitStr(raw) THEN <<ToInt(raw)>> ELSE <<>>) \o ExtractFrom(s, j + 1)
         ELSE ExtractFrom(s, i + 1)

_extract_numbers(s) == ExtractFrom(s, 1)

IsNegotiable_EnglishOnly(t) == Contains(t, <<"n", "e", "g", "o", "t", "i", "a", "b", "l", "e">> (* negotiable *))

\* line 117
IsNegotiable(t) ==
    Contains(t, <<"cy_d", "cy_o", "cy_g", "cy_o", "cy_v", "cy_o", "cy_r">> (* договор *)) \/ Contains(t, <<"cy_p", "cy_o", " ", "cy_d", "cy_o", "cy_g", "cy_o", "cy_v", "cy_o", "cy_r">> (* по договор *)) \/ Contains(t, <<"n", "e", "g", "o", "t", "i", "a", "b", "l", "e">> (* negotiable *))

ResolveAmount_LastTwo(nums) ==
    IF Len(nums) >= 2 THEN nums[Len(nums) - 1] + nums[Len(nums)] ELSE 2 * nums[1]

\* lines 128-130
ResolveAmount(nums) ==
    IF Len(nums) >= 2 THEN nums[1] + nums[2] ELSE 2 * nums[1]

\* line 132
HasThousandMarker(t) == Contains(t, <<"cy_t", "cy_y", "cy_s">> (* тыс *)) \/ Contains(t, <<"k">>)

IsRejected_NegativeOnly(rub) == rub < 0

\* line 140
IsRejected(rub) == rub <= 0

\* the locals of one iteration of the loop and the statement at which it ended;
\* base is amount before line 132, amount after line 133
Locals(exit, s, cur, nums, base, amount, rub) ==
    [exit |-> exit, s |-> s, cur |-> cur, nums |-> nums, base |-> base, amount |-> amount,
     rub |-> rub]

SalaryRow(val, rates) ==
    IF ~IsStr(val) THEN Locals("not_str", <<>>, None, <<>>, 0, 0, 0)
    ELSE LET s == normalize_spaces(val.s)
             t == safe_lower(Str(s))
         IN
         IF s = <<>> THEN Locals("empty", s, None, <<>>, 0, 0, 0)
         ELSE IF IsNegotiable(t) THEN Locals("negotiable", s, None, <<>>, 0, 0, 0)
         ELSE LET detected == _detect_currency(s)
                  cur      == IF detected = None THEN RUB ELSE detected
                  nums     == _extract_numbers(s)
              IN
              IF nums = <<>> THEN Locals("no_numbers", s, cur, nums, 0, 0, 0)
              ELSE LET base   == ResolveAmount(nums)
                       amount == IF HasThousandMarker(t) THEN base * 1000 ELSE base
                   IN
                   IF cur \notin DOMAIN rates THEN Locals("no_rate", s, cur, nums, base, amount, 0)
                   ELSE LET rub == amount * rates[cur]
                        IN  IF IsRejected(rub)
                            THEN Locals("rejected", s, cur, nums, base, amount, rub)
                            ELSE Locals("stored", s, cur, nums, base, amount, rub)

RECURSIVE SalaryLoop_AbortOnNoRate(_, _)
SalaryLoop_AbortOnNoRate(vals, rates) ==
    IF vals = <<>> THEN <<>>
    ELSE LET r == SalaryRow(Head(vals), rates)
         IN  IF r.exit = "no_rate"
             THEN <<r>> \o [i \in 1..(Len(vals) - 1) |-> Locals("not_str", <<>>, None, <<>>, 0, 0, 0)]
             ELSE <<r>> \o SalaryLoop_AbortOnNoRate(Tail(vals), rates)

\* lines 110-144: for i, val in enumerate(raw_series)
RECURSIVE SalaryLoop(_, _)
SalaryLoop(vals, rates) ==
    IF vals = <<>> THEN <<>>
    ELSE <<SalaryRow(Head(vals), rates)>> \o SalaryLoop(Tail(vals), rates)

\* target[i] and curr_out[i] as the loop leaves them
TargetOf(r) == IF r.exit = "stored" THEN Float(r.rub) ELSE NaN

CurrOutOf(r) == IF r.exit = "stored" THEN Str(r.cur) ELSE Str(<<>>)

---------------------------------------------------------------------------
(* job_category.py *)

LblNotSpecified == <<"CY_N", "cy_e", " ", "cy_u", "cy_k", "cy_a", "cy_z", "cy_a", "cy_n", "cy_o">> (* Не указано *)

LblOther == <<"CY_P", "cy_r", "cy_o", "cy_ch", "cy_e", "cy_e">> (* Прочее *)

\* any(k in t for k in [...])
AnyIn(t, keywords) == \E k \in keywords : Contains(t, k)

KwSysadmin == {<<"cy_s", "cy_i", "cy_s", "cy_t", "cy_e", "cy_m", "cy_n", "cy_y", "cy_j", " ", "cy_a", "cy_d", "cy_m", "cy_i", "cy_n", "cy_i", "cy_s", "cy_t", "cy_r", "cy_a", "cy_t", "cy_o", "cy_r">> (* системный администратор *), <<"s", "y", "s", "t", "e", "m", " ", "a", "d", "m", "i", "n", "i", "s", "t", "r", "a", "t", "o", "r">> (* system administrator *), <<"s", "y", "s", "a", "d", "m", "i", "n">> (* sysadmin *)}
KwDevops == {<<"d", "e", "v", "o", "p", "s">>, <<"s", "r", "e">>, <<"s", "i", "t", "e", " ", "r", "e", "l", "i", "a", "b", "i", "l", "i", "t", "y">> (* site reliability *)}
KwDba == {<<"d", "b", "a">>, <<"cy_a", "cy_d", "cy_m", "cy_i", "cy_n", "cy_i", "cy_s", "cy_t", "cy_r", "cy_a", "cy_t", "cy_o", "cy_r", " ", "cy_b", "cy_a", "cy_z", " ", "cy_d", "cy_a", "cy_n", "cy_n", "cy_y", "cy_h">> (* администратор баз данных *), <<"d", "a", "t", "a", "b", "a", "s", "e", " ", "a", "d", "m", "i", "n", "i", "s", "t", "r", "a", "t", "o", "r">> (* database administrator *)}
KwDataScience == {<<"d", "a", "t", "a", " ", "s", "c", "i", "e", "n", "t", "i", "s", "t">> (* data scientist *), <<"d", "s", " ">>, <<"m", "l", " ", "e", "n", "g", "i", "n", "e", "e", "r">> (* ml engineer *), <<"m", "a", "c", "h", "i", "n", "e", " ", "l", "e", "a", "r", "n", "i", "n", "g">> (* machine learning *)}
KwAnalyst == {<<"cy_a", "cy_n", "cy_a", "cy_l", "cy_i", "cy_t", "cy_i", "cy_k", " ", "cy_d", "cy_a", "cy_n", "cy_n", "cy_y", "cy_h">> (* аналитик данных *), <<"d", "a", "t", "a", " ", "a", "n", "a", "l", "y", "s", "t">> (* data analyst *), <<"b", "i", " ", "a", "n", "a", "l", "y", "s", "t">> (* bi analyst *), <<"b", "u", "s", "i", "n", "e", "s", "s", " ", "a", "n", "a", "l", "y", "s", "t">> (* business analyst *)}
KwTester == {<<"cy_t", "cy_e", "cy_s", "cy_t", "cy_i", "cy_r", "cy_o", "cy_v", "cy_shch", "cy_i", "cy_k">> (* тестировщик *), <<"q", "a">>, <<"q", "u", "a", "l", "i", "t", "y", " ", "a", "s", "s", "u", "r", "a", "n", "c", "e">> (* quality assurance *)}
KwDeveloper ==
    {<<"cy_r", "cy_a", "cy_z", "cy_r", "cy_a", "cy_b", "cy_o", "cy_t", "cy_ch", "cy_i", "cy_k">> (* разработчик *), <<"cy_p", "cy_r", "cy_o", "cy_g", "cy_r", "cy_a", "cy_m", "cy_m", "cy_i", "cy_s", "cy_t">> (* программист *), <<"d", "e", "v", "e", "l", "o", "p", "e", "r">> (* developer *), <<"s", "o", "f", "t", "w", "a", "r", "e", " ", "e", "n", "g", "i", "n", "e", "e", "r">> (* software engineer *), <<"b", "a", "c", "k", "e", "n", "d">> (* backend *),
     <<"f", "r", "o", "n", "t", "e", "n", "d">> (* frontend *), <<"f", "u", "l", "l", "s", "t", "a", "c", "k">> (* fullstack *), <<"i", "o", "s">>, <<"a", "n", "d", "r", "o", "i", "d">> (* android *), <<"j", "a", "v", "a">>, <<"p", "y", "t", "h", "o", "n">>, <<"c", "+", "+">>,
     <<"g", "o", "l", "a", "n", "g">>, <<"p", "h", "p">>, <<"j", "a", "v", "a", "s", "c", "r", "i", "p", "t">> (* javascript *), <<"n", "o", "d", "e", ".", "j", "s">> (* node.js *), <<"r", "e", "a", "c", "t">>, <<"v", "u", "e">>, <<"1", "c">>, <<"1", "cy_s">> (* 1с *),
     <<"u", "n", "i", "t", "y">>}
KwIt == {<<"i", "t">>, <<"cy_a", "cy_j", "cy_t", "cy_i">> (* айти *)}
KwProduct ==
    {<<"p", "r", "o", "d", "u", "c", "t", " ", "m", "a", "n", "a", "g", "e", "r">> (* product manager *), <<"p", "r", "o", "d", "u", "c", "t", " ", "o", "w", "n", "e", "r">> (* product owner *), <<"cy_p", "cy_r", "cy_o", "cy_d", "cy_a", "cy_k", "cy_t">> (* продакт *), <<"p", "r", "o", "d", "u", "c", "t">> (* product *),
     <<"cy_p", "cy_r", "cy_o", "cy_e", "cy_k", "cy_t", "cy_n", "cy_y", "cy_j", " ", "cy_m", "cy_e", "cy_n", "cy_e", "cy_d", "cy_zh", "cy_e", "cy_r">> (* проектный менеджер *), <<"p", "r", "o", "j", "e", "c", "t", " ", "m", "a", "n", "a", "g", "e", "r">> (* project manager *), <<"p", "m", " ">>}
KwMarketing ==
    {<<"cy_m", "cy_a", "cy_r", "cy_k", "cy_e", "cy_t", "cy_o", "cy_l", "cy_o", "cy_g">> (* маркетолог *), <<"m", "a", "r", "k", "e", "t", "i", "n", "g">> (* marketing *), <<"s", "m", "m">>, <<"cy_t", "cy_a", "cy_r", "cy_g", "cy_e", "cy_t">> (* таргет *), <<"s", "e", "o">>, <<"cy_k", "cy_o", "cy_n", "cy_t", "cy_e", "cy_n", "cy_t">> (* контент *), <<"p", "r">>,
     <<"c", "o", "p", "y", "w", "r", "i", "t", "e", "r">> (* copywriter *), <<"cy_k", "cy_o", "cy_p", "cy_i", "cy_r", "cy_a", "cy_j", "cy_t", "cy_e", "cy_r">> (* копирайтер *)}
KwSales ==
    {<<"cy_p", "cy_r", "cy_o", "cy_d", "cy_a", "cy_zh">> (* продаж *), <<"s", "a", "l", "e", "s">>, <<"a", "c", "c", "o", "u", "n", "t", " ", "m", "a", "n", "a", "g", "e", "r">> (* account manager *), <<"cy_m", "cy_e", "cy_n", "cy_e", "cy_d", "cy_zh", "cy_e", "cy_r", " ", "cy_p", "cy_o", " ", "cy_r", "cy_a", "cy_b", "cy_o", "cy_t", "cy_e", " ", "cy_s", " ", "cy_k", "cy_l", "cy_i", "cy_e", "cy_n", "cy_t", "cy_a", "cy_m", "cy_i">> (* менеджер по работе с клиентами *),
     <<"cy_k", "cy_l", "cy_i", "cy_e", "cy_n", "cy_t", "cy_a", "cy_m", "cy_i">> (* клиентами *), <<"cy_t", "cy_o", "cy_r", "cy_g", "cy_o", "cy_v", "cy_y", "cy_j", " ", "cy_p", "cy_r", "cy_e", "cy_d", "cy_s", "cy_t", "cy_a", "cy_v", "cy_i", "cy_t", "cy_e", "cy_l", "cy_soft">> (* торговый представитель *), <<"cy_k", "cy_a", "cy_s", "cy_s", "cy_i", "cy_r">> (* кассир *)}
KwFinance ==
    {<<"cy_b", "cy_u", "cy_h", "cy_g", "cy_a", "cy_l", "cy_t", "cy_e", "cy_r">> (* бухгалтер *), <<"a", "c", "c", "o", "u", "n", "t", "a", "n", "t">> (* accountant *), <<"cy_f", "cy_i", "cy_n", "cy_a", "cy_n", "cy_s">> (* финанс *), <<"cy_eh", "cy_k", "cy_o", "cy_n", "cy_o", "cy_m", "cy_i", "cy_s", "cy_t">> (* экономист *), <<"cy_a", "cy_u", "cy_d", "cy_i", "cy_t", "cy_o", "cy_r">> (* аудитор *), <<"cy_f", "cy_i", "cy_n", "cy_a", "cy_n", "cy_s", "cy_o", "cy_v", "cy_y", "cy_j">> (* финансовый *)}
KwHr == {<<"h", "r">>, <<"cy_r", "cy_e", "cy_k", "cy_r", "cy_u", "cy_t", "cy_e", "cy_r">> (* рекрутер *), <<"cy_p", "cy_o", "cy_d", "cy_b", "cy_o", "cy_r", " ", "cy_p", "cy_e", "cy_r", "cy_s", "cy_o", "cy_n", "cy_a", "cy_l", "cy_a">> (* подбор персонала *), <<"r", "e", "c", "r", "u", "i", "t", "e", "r">> (* recruiter *), <<"t", "a", "l", "e", "n", "t">>}
KwLawyer == {<<"cy_yu", "cy_r", "cy_i", "cy_s", "cy_t">> (* юрист *), <<"l", "a", "w", "y", "e", "r">>, <<"l", "e", "g", "a", "l">>}
KwLogistics ==
    {<<"cy_l", "cy_o", "cy_g", "cy_i", "cy_s", "cy_t">> (* логист *), <<"l", "o", "g", "i", "s", "t", "i", "c", "s">> (* logistics *), <<"cy_s", "cy_k", "cy_l", "cy_a", "cy_d">> (* склад *), <<"w", "a", "r", "e", "h", "o", "u", "s", "e">> (* warehouse *), <<"cy_k", "cy_u", "cy_r", "cy_soft", "cy_e", "cy_r">> (* курьер *), <<"cy_d", "cy_o", "cy_s", "cy_t", "cy_a", "cy_v", "cy_k", "cy_a">> (* доставка *),
     <<"cy_v", "cy_o", "cy_d", "cy_i", "cy_t", "cy_e", "cy_l", "cy_soft">> (* водитель *), <<"d", "r", "i", "v", "e", "r">>}
KwDesign ==
    {<<"cy_d", "cy_i", "cy_z", "cy_a", "cy_j", "cy_n", "cy_e", "cy_r">> (* дизайнер *), <<"d", "e", "s", "i", "g", "n", "e", "r">> (* designer *), <<"u", "x">>, <<"u", "i">>, <<"g", "r", "a", "p", "h", "i", "c">> (* graphic *), <<"cy_g", "cy_r", "cy_a", "cy_f", "cy_i", "cy_ch", "cy_e", "cy_s", "cy_k", "cy_i", "cy_j">> (* графический *),
     <<"cy_i", "cy_l", "cy_l", "cy_yu", "cy_s", "cy_t", "cy_r", "cy_a", "cy_t", "cy_o", "cy_r">> (* иллюстратор *), <<"i", "l", "l", "u", "s", "t", "r", "a", "t", "o", "r">> (* illustrator *), <<"3", "d">>, <<"2", "d">>}
KwEngineer ==
    {<<"cy_i", "cy_n", "cy_zh", "cy_e", "cy_n", "cy_e", "cy_r">> (* инженер *), <<"e", "n", "g", "i", "n", "e", "e", "r">> (* engineer *), <<"cy_t", "cy_e", "cy_h", "cy_n", "cy_o", "cy_l", "cy_o", "cy_g">> (* технолог *), <<"cy_eh", "cy_l", "cy_e", "cy_k", "cy_t", "cy_r", "cy_i", "cy_k">> (* электрик *), <<"m", "e", "c", "h", "a", "n", "i", "c">> (* mechanic *), <<"cy_m", "cy_e", "cy_h", "cy_a", "cy_n", "cy_i", "cy_k">> (* механик *),
     <<"cy_s", "cy_t", "cy_r", "cy_o", "cy_i", "cy_t", "cy_e", "cy_l">> (* строител *), <<"c", "o", "n", "s", "t", "r", "u", "c", "t", "i", "o", "n">> (* construction *)}
KwClerical ==
    {<<"cy_s", "cy_e", "cy_k", "cy_r", "cy_e", "cy_t", "cy_a", "cy_r", "cy_soft">> (* секретарь *), <<"a", "s", "s", "i", "s", "t", "a", "n", "t">> (* assistant *), <<"cy_a", "cy_s", "cy_s", "cy_i", "cy_s", "cy_t", "cy_e", "cy_n", "cy_t">> (* ассистент *), <<"cy_o", "cy_f", "cy_i", "cy_s", "-", "cy_m", "cy_e", "cy_n", "cy_e", "cy_d", "cy_zh", "cy_e", "cy_r">> (* офис-менеджер *), <<"cy_a", "cy_d", "cy_m", "cy_i", "cy_n", "cy_i", "cy_s", "cy_t", "cy_r", "cy_a", "cy_t", "cy_o", "cy_r">> (* администратор *),
     <<"r", "e", "c", "e", "p", "t", "i", "o", "n">> (* reception *)}
KwOperator == {<<"cy_o", "cy_p", "cy_e", "cy_r", "cy_a", "cy_t", "cy_o", "cy_r">> (* оператор *), <<"o", "p", "e", "r", "a", "t", "o", "r">> (* operator *)}
KwSpecialist == {<<"cy_s", "cy_p", "cy_e", "cy_c", "cy_i", "cy_a", "cy_l", "cy_i", "cy_s", "cy_t">> (* специалист *), <<"s", "p", "e", "c", "i", "a", "l", "i", "s", "t">> (* specialist *)}

LblSysadmin == <<"CY_S", "cy_i", "cy_s", "cy_t", "cy_e", "cy_m", "cy_n", "cy_y", "cy_j", " ", "cy_a", "cy_d", "cy_m", "cy_i", "cy_n", "cy_i", "cy_s", "cy_t", "cy_r", "cy_a", "cy_t", "cy_o", "cy_r">> (* Системный администратор *)
LblDevops == <<"D", "e", "v", "O", "p", "s", "/", "S", "R", "E">> (* DevOps/SRE *)
LblDba == <<"CY_A", "cy_d", "cy_m", "cy_i", "cy_n", "cy_i", "cy_s", "cy_t", "cy_r", "cy_a", "cy_t", "cy_o", "cy_r", " ", "cy_b", "cy_a", "cy_z", " ", "cy_d", "cy_a", "cy_n", "cy_n", "cy_y", "cy_h">> (* Администратор баз данных *)
LblDataScience == <<"D", "a", "t", "a", " ", "S", "c", "i", "e", "n", "t", "i", "s", "t", "/", "M", "L">> (* Data Scientist/ML *)
LblAnalyst == <<"CY_A", "cy_n", "cy_a", "cy_l", "cy_i", "cy_t", "cy_i", "cy_k">> (* Аналитик *)
LblTester == <<"CY_T", "cy_e", "cy_s", "cy_t", "cy_i", "cy_r", "cy_o", "cy_v", "cy_shch", "cy_i", "cy_k">> (* Тестировщик *)
LblDeveloper == <<"CY_P", "cy_r", "cy_o", "cy_g", "cy_r", "cy_a", "cy_m", "cy_m", "cy_i", "cy_s", "cy_t", "/", "CY_R", "cy_a", "cy_z", "cy_r", "cy_a", "cy_b", "cy_o", "cy_t", "cy_ch", "cy_i", "cy_k">> (* Программист/Разработчик *)
LblIt == <<"I", "T", "-", "cy_s", "cy_p", "cy_e", "cy_c", "cy_i", "cy_a", "cy_l", "cy_i", "cy_s", "cy_t">> (* IT-специалист *)
LblProduct == <<"CY_M", "cy_e", "cy_n", "cy_e", "cy_d", "cy_zh", "cy_e", "cy_r", " ", "cy_p", "cy_r", "cy_o", "cy_e", "cy_k", "cy_t", "cy_o", "cy_v", "/", "CY_P", "cy_r", "cy_o", "cy_d", "cy_u", "cy_k", "cy_t", "cy_a">> (* Менеджер проектов/Продукта *)
LblMarketing == <<"CY_M", "cy_a", "cy_r", "cy_k", "cy_e", "cy_t", "cy_i", "cy_n", "cy_g", "/", "P", "R", "/", "CY_K", "cy_o", "cy_n", "cy_t", "cy_e", "cy_n", "cy_t">> (* Маркетинг/PR/Контент *)
LblSales == <<"CY_P", "cy_r", "cy_o", "cy_d", "cy_a", "cy_zh", "cy_i", "/", "CY_K", "cy_l", "cy_i", "cy_e", "cy_n", "cy_t", "cy_y">> (* Продажи/Клиенты *)
LblFinance == <<"CY_F", "cy_i", "cy_n", "cy_a", "cy_n", "cy_s", "cy_y", "/", "CY_B", "cy_u", "cy_h", "cy_g", "cy_a", "cy_l", "cy_t", "cy_e", "cy_r", "cy_i", "cy_ya">> (* Финансы/Бухгалтерия *)
LblHr == <<"H", "R", "/", "CY_R", "cy_e", "cy_k", "cy_r", "cy_u", "cy_t", "cy_e", "cy_r">> (* HR/Рекрутер *)
LblLawyer == <<"CY_YU", "cy_r", "cy_i", "cy_s", "cy_t">> (* Юрист *)
LblLogistics == <<"CY_L", "cy_o", "cy_g", "cy_i", "cy_s", "cy_t", "cy_i", "cy_k", "cy_a", "/", "CY_S", "cy_k", "cy_l", "cy_a", "cy_d", "/", "CY_T", "cy_r", "cy_a", "cy_n", "cy_s", "cy_p", "cy_o", "cy_r", "cy_t">> (* Логистика/Склад/Транспорт *)
LblDesign == <<"CY_D", "cy_i", "cy_z", "cy_a", "cy_j", "cy_n", "/", "CY_K", "cy_r", "cy_e", "cy_a", "cy_t", "cy_i", "cy_v">> (* Дизайн/Креатив *)
LblEngineer == <<"CY_I", "cy_n", "cy_zh", "cy_e", "cy_n", "cy_e", "cy_r", "cy_i", "cy_ya", "/", "CY_P", "cy_r", "cy_o", "cy_i", "cy_z", "cy_v", "cy_o", "cy_d", "cy_s", "cy_t", "cy_v", "cy_o", "/", "CY_S", "cy_t", "cy_r", "cy_o", "cy_i", "cy_t", "cy_e", "cy_l", "cy_soft", "cy_s", "cy_t", "cy_v", "cy_o">> (* Инженерия/Производство/Строительство *)
LblClerical == <<"CY_A", "cy_d", "cy_m", "cy_i", "cy_n", "cy_i", "cy_s", "cy_t", "cy_r", "cy_a", "cy_t", "cy_i", "cy_v", "cy_n", "cy_y", "cy_j", " ", "cy_p", "cy_e", "cy_r", "cy_s", "cy_o", "cy_n", "cy_a", "cy_l">> (* Административный персонал *)
LblOperator == <<"CY_O", "cy_p", "cy_e", "cy_r", "cy_a", "cy_t", "cy_o", "cy_r">> (* Оператор *)
LblSpecialist == <<"CY_S", "cy_p", "cy_e", "cy_c", "cy_i", "cy_a", "cy_l", "cy_i", "cy_s", "cy_t", " ", "(", "cy_o", "cy_b", "cy_shch", "cy_i", "cy_j", ")">> (* Специалист (общий) *)

\* the rules of categorize_job_title in the order of its if statements
CategoryRules ==
    << <<KwSysadmin, LblSysadmin>>, <<KwDevops, LblDevops>>, <<KwDba, LblDba>>,
       <<KwDataScience, LblDataScience>>, <<KwAnalyst, LblAnalyst>>, <<KwTester, LblTester>>,
       <<KwDeveloper, LblDeveloper>>, <<KwIt, LblIt>>, <<KwProduct, LblProduct>>,
       <<KwMarketing, LblMarketing>>, <<KwSales, LblSales>>, <<KwFinance, LblFinance>>,
       <<KwHr, LblHr>>, <<KwLawyer, LblLawyer>>, <<KwLogistics, LblLogistics>>,
       <<KwDesign, LblDesign>>, <<KwEngineer, LblEngineer>>, <<KwClerical, LblClerical>>,
       <<KwOperator, LblOperator>>, <<KwSpecialist, LblSpecialist>> >>

categorize_job_title_DeveloperFirst(title) ==
    LET t == safe_lower(title)
    IN  IF t = <<>> THEN LblNotSpecified
        ELSE IF AnyIn(t, KwDeveloper) THEN LblDeveloper
        ELSE IF AnyIn(t, KwSysadmin) THEN LblSysadmin
        ELSE IF AnyIn(t, KwDevops) THEN LblDevops
        ELSE IF AnyIn(t, KwDba) THEN LblDba
        ELSE IF AnyIn(t, KwDataScience) THEN LblDataScience
        ELSE IF AnyIn(t, KwAnalyst) THEN LblAnalyst
        ELSE IF AnyIn(t, KwTester) THEN LblTester
        ELSE IF AnyIn(t, KwIt) THEN LblIt
        ELSE IF AnyIn(t, KwProduct) THEN LblProduct
        ELSE IF AnyIn(t, KwMarketing) THEN LblMarketing
        ELSE IF AnyIn(t, KwSales) THEN LblSales
        ELSE IF AnyIn(t, KwFinance) THEN LblFinance
        ELSE IF AnyIn(t, KwHr) THEN LblHr
        ELSE IF AnyIn(t, KwLawyer) THEN LblLawyer
        ELSE IF AnyIn(t, KwLogistics) THEN LblLogistics
        ELSE IF AnyIn(t, KwDesign) THEN LblDesign
        ELSE IF AnyIn(t, KwEngineer) THEN LblEngineer
        ELSE IF AnyIn(t, KwClerical) THEN LblClerical
        ELSE IF AnyIn(t, KwOperator) THEN LblOperator
        ELSE IF AnyIn(t, KwSpecialist) THEN LblSpecialist
        ELSE LblOther

categorize_job_title(title) ==
    LET t == safe_lower(title)
    IN  IF t = <<>> THEN LblNotSpecified
        ELSE IF AnyIn(t, KwSysadmin) THEN LblSysadmin
        ELSE IF AnyIn(t, KwDevops) THEN LblDevops
        ELSE IF AnyIn(t, KwDba) THEN LblDba
        ELSE IF AnyIn(t, KwDataScience) THEN LblDataScience
        ELSE IF AnyIn(t, KwAnalyst) THEN LblAnalyst
        ELSE IF AnyIn(t, KwTester) THEN LblTester
        ELSE IF AnyIn(t, KwDeveloper) THEN LblDeveloper
        ELSE IF AnyIn(t, KwIt) THEN LblIt
        ELSE IF AnyIn(t, KwProduct) THEN LblProduct
        ELSE IF AnyIn(t, KwMarketing) THEN LblMarketing
        ELSE IF AnyIn(t, KwSales) THEN LblSales
        ELSE IF AnyIn(t, KwFinance) THEN LblFinance
        ELSE IF AnyIn(t, KwHr) THEN LblHr
        ELSE IF AnyIn(t, KwLawyer) THEN LblLawyer
        ELSE IF AnyIn(t, KwLogistics) THEN LblLogistics
        ELSE IF AnyIn(t, KwDesign) THEN LblDesign
        ELSE IF AnyIn(t, KwEngineer) THEN LblEngineer
        ELSE IF AnyIn(t, KwClerical) THEN LblClerical
        ELSE IF AnyIn(t, KwOperator) THEN LblOperator
        ELSE IF AnyIn(t, KwSpecialist) THEN LblSpecialist
        ELSE LblOther

IsDesiredColumn(c) == Contains(Lower(c), <<"cy_i", "cy_shch", "cy_e", "cy_t", " ", "cy_r", "cy_a", "cy_b", "cy_o", "cy_t", "cy_u", " ", "cy_n", "cy_a", " ", "cy_d", "cy_o", "cy_l", "cy_zh", "cy_n", "cy_o", "cy_s", "cy_t", "cy_soft">> (* ищет работу на должность *))

IsCurrentTitleColumn(c) ==
    Contains(Lower(c), <<"cy_n", "cy_y", "cy_n", "cy_e", "cy_sh", "cy_n", "cy_ya", "cy_ya", " ", "cy_d", "cy_o", "cy_l", "cy_zh", "cy_n", "cy_o", "cy_s", "cy_t", "cy_soft">> (* нынешняя должность *)) \/ Contains(Lower(c), <<"cy_n", "cy_y", "cy_n", "cy_e", "cy_sh", "cy_n", "cy_ya", "cy_ya", " ", "cy_d", "cy_o", "cy_l", "cy_zh", "cy_n", "cy_o", "cy_s", "cy_t">> (* нынешняя должност *))

IsEmployerColumn(c) == Contains(Lower(c), <<"cy_m", "cy_e", "cy_s", "cy_t", "cy_o", " ", "cy_r", "cy_a", "cy_b", "cy_o", "cy_t", "cy_y">> (* место работы *))

---------------------------------------------------------------------------
(* parse_education.py *)

_EDU_COL == <<"CY_O", "cy_b", "cy_r", "cy_a", "cy_z", "cy_o", "cy_v", "cy_a", "cy_n", "cy_i", "cy_e", " ", "cy_i", " ", "CY_V", "CY_U", "CY_Z">> (* Образование и ВУЗ *)

parse_level(val) ==
    LET t == safe_lower(val)
    IN  IF t = <<>> THEN LblNotSpecified
        ELSE IF Contains(t, <<"cy_d", "cy_o", "cy_k", "cy_t", "cy_o", "cy_r">> (* доктор *)) THEN <<"CY_D", "cy_o", "cy_k", "cy_t", "cy_o", "cy_r", " ", "cy_n", "cy_a", "cy_u", "cy_k">> (* Доктор наук *)
        ELSE IF Contains(t, <<"cy_k", "cy_a", "cy_n", "cy_d", "cy_i", "cy_d", "cy_a", "cy_t">> (* кандидат *)) THEN <<"CY_K", "cy_a", "cy_n", "cy_d", "cy_i", "cy_d", "cy_a", "cy_t", " ", "cy_n", "cy_a", "cy_u", "cy_k">> (* Кандидат наук *)
        ELSE IF Contains(t, <<"cy_n", "cy_e", "cy_o", "cy_k", "cy_o", "cy_n", "cy_ch", "cy_e", "cy_n">> (* неокончен *)) \/ Contains(t, <<"i", "n", "c", "o", "m", "p", "l", "e", "t", "e", " ", "h", "i", "g", "h", "e", "r">> (* incomplete higher *))
             THEN <<"CY_N", "cy_e", "cy_o", "cy_k", "cy_o", "cy_n", "cy_ch", "cy_e", "cy_n", "cy_n", "cy_o", "cy_e", " ", "cy_v", "cy_y", "cy_s", "cy_sh", "cy_e", "cy_e">> (* Неоконченное высшее *)
        ELSE IF Contains(t, <<"cy_v", "cy_y", "cy_s", "cy_sh", "cy_e", "cy_e">> (* высшее *)) \/ Contains(t, <<"h", "i", "g", "h", "e", "r", " ", "e", "d", "u", "c", "a", "t", "i", "o", "n">> (* higher education *))
                \/ Contains(t, <<"b", "a", "c", "h", "e", "l", "o", "r">> (* bachelor *)) \/ Contains(t, <<"m", "a", "s", "t", "e", "r">>)
             THEN <<"CY_V", "cy_y", "cy_s", "cy_sh", "cy_e", "cy_e">> (* Высшее *)
        ELSE IF Contains(t, <<"cy_s", "cy_r", "cy_e", "cy_d", "cy_n", "cy_e", "cy_e", " ", "cy_s", "cy_p", "cy_e", "cy_c", "cy_i", "cy_a", "cy_l", "cy_soft">> (* среднее специаль *)) \/ Contains(t, <<"c", "o", "l", "l", "e", "g", "e">> (* college *))
                \/ Contains(t, <<"v", "o", "c", "a", "t", "i", "o", "n", "a", "l">> (* vocational *))
             THEN <<"CY_S", "cy_r", "cy_e", "cy_d", "cy_n", "cy_e", "cy_e", " ", "cy_s", "cy_p", "cy_e", "cy_c", "cy_i", "cy_a", "cy_l", "cy_soft", "cy_n", "cy_o", "cy_e">> (* Среднее специальное *)
        ELSE IF Contains(t, <<"cy_s", "cy_r", "cy_e", "cy_d", "cy_n", "cy_e", "cy_e">> (* среднее *)) \/ Contains(t, <<"s", "e", "c", "o", "n", "d", "a", "r", "y">> (* secondary *)) THEN <<"CY_S", "cy_r", "cy_e", "cy_d", "cy_n", "cy_e", "cy_e">> (* Среднее *)
        ELSE LblNotSpecified

\* _YEAR_RE = (19\d{2}|20\d{2}) matches at position i
YearAt(t, i) ==
    /\ i + 3 <= Len(t)
    /\ SubSeq(t, i, i + 1) \in {<<"1", "9">>, <<"2", "0">>}
    /\ IsDigit(t[i + 2])
    /\ IsDigit(t[i + 3])

YearLow == 1950

YearHigh == 2035

parse_year(val) ==
    LET t    == safe_lower(val)
        hits == {i \in 1..Len(t) : YearAt(t, i)}
    IN  IF t = <<>> \/ hits = {} THEN NaN
        ELSE LET m    == CHOOSE i \in hits : \A j \in hits : i <= j
                 year == ToInt(SubSeq(t, m, m + 3))
             IN  IF YearLow <= year /\ year <= YearHigh THEN Float(2 * year) ELSE NaN

---------------------------------------------------------------------------
(* parse_location.py *)

_CITY_COL == <<"CY_G", "cy_o", "cy_r", "cy_o", "cy_d">> (* Город *)

\* t.split(",")[0]
BeforeComma(t) ==
    LET commas == {i \in 1..Len(t) : t[i] = ","}
    IN  IF commas = {} THEN t
        ELSE SubSeq(t, 1, (CHOOSE i \in commas : \A j \in commas : i <= j) - 1)

parse_city(v) ==
    IF ~IsStr(v) THEN LblNotSpecified
    ELSE LET t == normalize_spaces(v.s)
         IN  IF t = <<>> THEN LblNotSpecified ELSE normalize_spaces(BeforeComma(t))

RelocateNegative ==
    {<<"cy_n", "cy_e", " ", "cy_g", "cy_o", "cy_t", "cy_o", "cy_v", " ", "cy_k", " ", "cy_p", "cy_e", "cy_r", "cy_e", "cy_e", "cy_z", "cy_d", "cy_u">> (* не готов к переезду *), <<"n", "o", "t", " ", "r", "e", "a", "d", "y", " ", "t", "o", " ", "r", "e", "l", "o", "c", "a", "t", "e">> (* not ready to relocate *), <<"n", "o", "t", " ", "w", "i", "l", "l", "i", "n", "g", " ", "t", "o", " ", "r", "e", "l", "o", "c", "a", "t", "e">> (* not willing to relocate *)}

RelocatePositive ==
    {<<"cy_g", "cy_o", "cy_t", "cy_o", "cy_v", " ", "cy_k", " ", "cy_p", "cy_e", "cy_r", "cy_e", "cy_e", "cy_z", "cy_d", "cy_u">> (* готов к переезду *), <<"r", "e", "a", "d", "y", " ", "t", "o", " ", "r", "e", "l", "o", "c", "a", "t", "e">> (* ready to relocate *), <<"w", "i", "l", "l", "i", "n", "g", " ", "t", "o", " ", "r", "e", "l", "o", "c", "a", "t", "e">> (* willing to relocate *)}

parse_relocate_PositiveFirst(v) ==
    LET t == safe_lower(v)
    IN  IF t = <<>> THEN FALSE
        ELSE IF AnyIn(t, RelocatePositive) THEN TRUE
        ELSE FALSE

parse_relocate(v) ==
    LET t == safe_lower(v)
    IN  IF t = <<>> THEN FALSE
        ELSE IF AnyIn(t, RelocateNegative) THEN FALSE
        ELSE IF AnyIn(t, RelocatePositive) THEN TRUE
        ELSE FALSE

TripsNegative == {<<"cy_n", "cy_e", " ", "cy_g", "cy_o", "cy_t", "cy_o", "cy_v", " ", "cy_k", " ", "cy_k", "cy_o", "cy_m", "cy_a", "cy_n", "cy_d", "cy_i", "cy_r", "cy_o", "cy_v", "cy_k", "cy_a", "cy_m">> (* не готов к командировкам *), <<"n", "o", "t", " ", "r", "e", "a", "d", "y", " ", "f", "o", "r", " ", "b", "u", "s", "i", "n", "e", "s", "s", " ", "t", "r", "i", "p", "s">> (* not ready for business trips *)}

TripsPositive ==
    {<<"cy_g", "cy_o", "cy_t", "cy_o", "cy_v", " ", "cy_k", " ", "cy_k", "cy_o", "cy_m", "cy_a", "cy_n", "cy_d", "cy_i", "cy_r", "cy_o", "cy_v", "cy_k", "cy_a", "cy_m">> (* готов к командировкам *), <<"cy_g", "cy_o", "cy_t", "cy_o", "cy_v", " ", "cy_k", " ", "cy_r", "cy_e", "cy_d", "cy_k", "cy_i", "cy_m", " ", "cy_k", "cy_o", "cy_m", "cy_a", "cy_n", "cy_d", "cy_i", "cy_r", "cy_o", "cy_v", "cy_k", "cy_a", "cy_m">> (* готов к редким командировкам *),
     <<"r", "e", "a", "d", "y", " ", "f", "o", "r", " ", "b", "u", "s", "i", "n", "e", "s", "s", " ", "t", "r", "i", "p", "s">> (* ready for business trips *), <<"w", "i", "l", "l", "i", "n", "g", " ", "t", "o", " ", "t", "r", "a", "v", "e", "l">> (* willing to travel *)}

parse_trips(v) ==
    LET t == safe_lower(v)
    IN  IF t = <<>> THEN FALSE
        ELSE IF AnyIn(t, TripsNegative) THEN FALSE
        ELSE IF AnyIn(t, TripsPositive) THEN TRUE
        ELSE FALSE

---------------------------------------------------------------------------
(* The handlers.  A handler that raises leaves the context as it was and   *)
(* ends the run: no later handler is called.                               *)

NoError == "none"

NotLoaded == "DataFrame is not loaded"

NoSalaryColumn == "Required target column not found"

\* the fixed order of the chain
Chain == <<"clean_cols", "job_category", "parse_education", "parse_location", "parse_salary">>

Position(stage) == CHOOSE i \in 1..Len(Chain) : Chain[i] = stage

\* a run calls any of the handlers, each after the ones before it in the chain
CanRun(stage) ==
    raised = NoError /\ \A i \in 1..Len(ran) : Position(ran[i]) < Position(stage)

Raise(stage, message) ==
    /\ raised' = message
    /\ ran' = Append(ran, stage)
    /\ UNCHANGED <<df, diag, fx, input, trace>>

Return(stage, frame) ==
    /\ df' = frame
    /\ ran' = Append(ran, stage)
    /\ UNCHANGED <<fx, raised, input>>

\* clean_cols.py lines 16-22
CleanedFrame(d) ==
    LET renamed == [d EXCEPT !.cols = [i \in 1..Len(d.cols) |->
                                         Column(Strip(d.cols[i].name), d.cols[i].data)]]
        drop_cols == {renamed.cols[i].name : i \in {j \in 1..Len(renamed.cols) :
                                       StartsWith(Lower(renamed.cols[j].name), <<"u", "n", "n", "a", "m", "e", "d">> (* unnamed *))}}
    IN  DropColumns(renamed, drop_cols)

CleanColumns ==
    /\ CanRun("clean_cols")
    /\ IF ~df.loaded THEN Raise("clean_cols", NotLoaded)
       ELSE Return("clean_cols", CleanedFrame(df)) /\ UNCHANGED <<diag, trace>>

\* job_category.py lines 213-251
JobCategoryFrame(d) ==
    LET desired_col == FirstColumn(d, {i \in 1..Len(d.cols) : IsDesiredColumn(d.cols[i].name)})
        current_title_col == FirstColumn(d, {i \in 1..Len(d.cols) : IsCurrentTitleColumn(d.cols[i].name)})
        d1 == SetColumn(d, ColJobCategory,
                  IF desired_col = None THEN Broadcast(d, Str(LblNotSpecified))
                  ELSE [i \in 1..NRows(d) |->
                           Str(categorize_job_title(GetColumn(d, desired_col)[i]))])
        d2 == SetColumn(d1, ColCurrentJobCategory,
                  IF current_title_col = None THEN Broadcast(d1, Str(LblNotSpecified))
                  ELSE [i \in 1..NRows(d1) |->
                           Str(categorize_job_title(GetColumn(d1, current_title_col)[i]))])
        d3 == DropColumns(d2, {desired_col, current_title_col} \ {None})
        employer_col == FirstColumn(d3, {i \in 1..Len(d3.cols) : IsEmployerColumn(d3.cols[i].name)})
    IN  IF employer_col = None THEN d3 ELSE DropColumns(d3, {employer_col})

JobCategory ==
    /\ CanRun("job_category")
    /\ IF ~df.loaded THEN Raise("job_category", NotLoaded)
       ELSE Return("job_category", JobCategoryFrame(df)) /\ UNCHANGED <<diag, trace>>

EducationDefaults_EmptyLevel(d) ==
    SetColumn(SetColumn(d, ColEducationLevel, Broadcast(d, Str(<<>>))),
              ColEducationYear, Broadcast(d, NaN))

\* parse_education.py lines 45-49
EducationDefaults(d) ==
    SetColumn(SetColumn(d, ColEducationLevel, Broadcast(d, Str(LblNotSpecified))),
              ColEducationYear, Broadcast(d, NaN))

\* parse_education.py lines 40-112
EducationFrame(d) ==
    IF ~HasColumn(d, _EDU_COL) THEN EducationDefaults(d)
    ELSE LET col == GetColumn(d, _EDU_COL)
             d1  == SetColumn(d, ColEducationLevel,
                              [i \in 1..NRows(d) |-> Str(parse_level(col[i]))])
         IN  SetColumn(d1, ColEducationYear, [i \in 1..NRows(d) |-> parse_year(col[i])])

ParseEducation ==
    /\ CanRun("parse_education")
    /\ IF ~df.loaded THEN Raise("parse_education", NotLoaded)
       ELSE Return("parse_education", EducationFrame(df)) /\ UNCHANGED <<diag, trace>>

\* parse_location.py lines 39-125
LocationFrame(d) ==
    IF ~HasColumn(d, _CITY_COL)
    THEN SetColumn(SetColumn(SetColumn(d, ColCity, Broadcast(d, Str(LblNotSpecified))),
                             ColRelocateReady, Broadcast(d, Bool(FALSE))),
                   ColTripsReady, Broadcast(d, Bool(FALSE)))
    ELSE LET col == GetColumn(d, _CITY_COL)
             d1  == SetColumn(d, ColCity, [i \in 1..NRows(d) |-> Str(parse_city(col[i]))])
             d2  == SetColumn(d1, ColRelocateReady,
                              [i \in 1..NRows(d) |-> Bool(parse_relocate(col[i]))])
         IN  SetColumn(d2, ColTripsReady, [i \in 1..NRows(d) |-> Bool(parse_trips(col[i]))])

ParseLocation ==
    /\ CanRun("parse_location")
    /\ IF ~df.loaded THEN Raise("parse_location", NotLoaded)
       ELSE Return("parse_location", LocationFrame(df)) /\ UNCHANGED <<diag, trace>>

\* rows of the frame kept by a boolean mask, in order
RECURSIVE MaskIndices(_, _)
MaskIndices(mask, i) ==
    IF i > Len(mask) THEN <<>>
    ELSE (IF mask[i] THEN <<i>> ELSE <<>>) \o MaskIndices(mask, i + 1)

SalaryFrame_DropNull(d, loop) ==
    LET keep == MaskIndices([i \in 1..Len(loop) |-> loop[i].exit = "stored"], 1)
        Pick(xs) == [k \in 1..Len(keep) |-> xs[keep[k]]]
        kept == [d EXCEPT !.index = Pick(d.index),
                          !.cols = [c \in 1..Len(d.cols) |->
                                      Column(d.cols[c].name, Pick(d.cols[c].data))]]
    IN  SetColumn(SetColumn(kept, ColSalaryCurrency, Pick([i \in 1..Len(loop) |-> CurrOutOf(loop[i])])),
                  ColTargetSalaryRub, Pick([i \in 1..Len(loop) |-> TargetOf(loop[i])]))

\* parse_salary.py lines 146-147
SalaryFrame(d, loop) ==
    SetColumn(SetColumn(d, ColSalaryCurrency, [i \in 1..Len(loop) |-> CurrOutOf(loop[i])]),
              ColTargetSalaryRub, [i \in 1..Len(loop) |-> TargetOf(loop[i])])

ExamplesHead == 20

\* parse_salary.py lines 149-155
SalaryDiag(out, source) ==
    LET target   == GetColumn(out, ColTargetSalaryRub)
        nan_mask == [i \in 1..Len(target) |-> IsNaN(target[i])]
        nan_rows == MaskIndices(nan_mask, 1)
        ex       == [k \in 1..(IF Len(nan_rows) < ExamplesHead THEN Len(nan_rows)
                               ELSE ExamplesHead) |->
                        [index |-> out.index[nan_rows[k]],
                         salary |-> GetColumn(out, _SALARY_COL)[nan_rows[k]],
                         salary_currency |-> GetColumn(out, ColSalaryCurrency)[nan_rows[k]]]]
        zeros    == Cardinality({i \in 1..Len(target) :
                                   target[i].kind = "float" /\ target[i].twice = 0})
    IN  ("target_zeros" :> zeros)
        @@ (IF nan_rows # <<>> THEN ("nan_target_examples" :> ex) ELSE [k \in {} |-> 0])
        @@ ("rows_with_nan_target" :> Len(nan_rows))
        @@ ("fx_rates_source" :> source)

\* utils/currency.py: the rate table and where it came from
load_fx_rates == fx

ParseSalary ==
    /\ CanRun("parse_salary")
    /\ IF ~df.loaded THEN Raise("parse_salary", NotLoaded)
       ELSE IF ~HasColumn(df, _SALARY_COL) THEN Raise("parse_salary", NoSalaryColumn)
       ELSE LET rates == load_fx_rates
                loop  == SalaryLoop(GetColumn(df, _SALARY_COL), rates.rates)
                out   == SalaryFrame(df, loop)
            IN  /\ Return("parse_salary", out)
                /\ diag' = SalaryDiag(out, rates.source) @@ diag
                /\ trace' = loop

---------------------------------------------------------------------------
(* Input tables *)

RangeIndex(n) == [i \in 1..n |-> i]

\* concatenations of exactly k fragments
RECURSIVE Concat(_, _)
Concat(frags, k) ==
    IF k = 0 THEN {<<>>}
    ELSE {a \o f : a \in Concat(frags, k - 1), f \in frags}

ConcatUpTo(frags, k) == UNION {Concat(frags, j) : j \in 0..k}

\* a cell built from exactly k fragments; a cell of none is missing or empty
Cells(frags, k) ==
    IF k = 0 THEN {NaN, Str(<<>>)} ELSE {Str(x) : x \in Concat(frags, k)}

SalaryFrags ==
    {<<"6">>, <<"0", " ">>, <<"2", " ", "0">>, <<"1", "nbsp", "0", " ">> (* 1<nbsp>0  *), <<"cy_o", "cy_t", " ", "8", "0", " ", "0", "0", "0", " ", "cy_d", "cy_o", " ", "1", "0", "0", " ", "0", "0", "0", " ", "cy_r", "cy_u", "cy_b", ".">> (* от 80 000 до 100 000 руб. *), <<"k">>, <<" ", "cy_t", "cy_y", "cy_s", ".", " ">> (*  тыс.  *),
     <<"cy_r", "cy_u", "cy_b", ".">> (* руб. *), <<" ", "U", "S", "D">>, <<" ", "K", "Z", "T", " ">>, <<"cy_o", "cy_t", " ">> (* от  *), <<" ", "cy_d", "cy_o", " ">> (*  до  *), <<"cy_p", "cy_o", " ", "CY_D", "cy_o", "cy_g", "cy_o", "cy_v", "cy_o", "cy_r", "cy_yo", "cy_n", "cy_n", "cy_o", "cy_s", "cy_t", "cy_i">> (* по Договорённости *), <<"N", "e", "g", "o", "t", "i", "a", "b", "l", "e">> (* Negotiable *),
     <<"tab", " ">>}

\* cells of the tables of several rows
SalarySamples ==
    {NaN, Str(<<"6", " ", "K", "Z", "T">>), Str(<<"2", " ", "0", " ", "cy_r", "cy_u", "cy_b", ".">> (* 2 0 руб. *)), Str(<<"N", "e", "g", "o", "t", "i", "a", "b", "l", "e", ",", " ", "6", " ", "e", "u", "r">> (* Negotiable, 6 eur *)), Str(<<"0", " ", "cy_r", "cy_u", "cy_b">> (* 0 руб *))}

CurrencyMarkers ==
    {<<"cy_r", "cy_u", "cy_b">> (* руб *), <<"R", "U", "R">>, <<"r", "u", "b">>, <<"rouble">> (* ₽ *), <<"U", "S", "D">>, <<"$">>, <<"E", "U", "R">>, <<"euro">> (* € *), <<"k", "z", "t">>, <<"cy_t", "cy_e", "cy_n", "cy_g", "cy_e">> (* тенге *),
     <<"B", "Y", "N">>, <<"cy_b", "cy_e", "cy_l">> (* бел *), <<"u", "a", "h">>, <<"cy_g", "cy_r", "cy_n">> (* грн *), <<"U", "Z", "S">>, <<"cy_s", "cy_u", "cy_m">> (* сум *), <<"g", "e", "l">>, <<"cy_l", "cy_a", "cy_r", "cy_i">> (* лари *), <<"A", "M", "D">>,
     <<"cy_d", "cy_r", "cy_a", "cy_m">> (* драм *), <<"a", "z", "n">>, <<"cy_m", "cy_a", "cy_n", "cy_a", "cy_t">> (* манат *)}

SalaryColumn(data) == Frame(RangeIndex(Len(data)), <<Column(_SALARY_COL, data)>>)

\* one row of free text, or several rows of samples
SalaryTables ==
    {SalaryColumn(<<c>>) : c \in UNION {Cells(SalaryFrags, k) : k \in 0..MaxFrags}}
    \cup
    {SalaryColumn(data) : data \in UNION {[1..n -> SalarySamples] : n \in 0..MaxRows}}

\* one row holding an amount and the markers of at most two currencies
CurrencyTables ==
    {SalaryColumn(<<Str(<<"1", "0", "0", " ">> \o m1 \o <<" ">> \o m2)>>) :
        m1 \in CurrencyMarkers \cup {<<>>}, m2 \in CurrencyMarkers \cup {<<>>}}

FullRates ==
    (RUB :> 1) @@ (USD :> 5) @@ (EUR :> 4) @@ (KZT :> 1) @@ (BYN :> 3) @@ (UAH :> 2)
    @@ (UZS :> 1) @@ (GEL :> 3) @@ (AMD :> 1) @@ (AZN :> 4)

FxTables ==
    {[rates |-> FullRates, source |-> "cbr"],
     [rates |-> (RUB :> 1) @@ (USD :> 5) @@ (EUR :> 4), source |-> "cache"],
     [rates |-> (USD :> 5), source |-> "default"]}

TitleFrags == {<<"S", "e", "n", "i", "o", "r", " ">> (* Senior  *), <<"D", "e", "v", "O", "p", "s", " ">> (* DevOps  *), <<"D", "e", "v", "e", "l", "o", "p", "e", "r", " ">> (* Developer  *), <<" ", " ", "Q", "A", "tab">>, <<"CY_M", "cy_e", "cy_n", "cy_e", "cy_d", "cy_zh", "cy_e", "cy_r", " ", "I", "T", " ">> (* Менеджер IT  *)}

AllKeywords == UNION {CategoryRules[i][1] : i \in 1..Len(CategoryRules)}

DesiredName == <<"CY_I", "cy_shch", "cy_e", "cy_t", " ", "cy_r", "cy_a", "cy_b", "cy_o", "cy_t", "cy_u", " ", "cy_n", "cy_a", " ", "cy_d", "cy_o", "cy_l", "cy_zh", "cy_n", "cy_o", "cy_s", "cy_t", "cy_soft", ":">> (* Ищет работу на должность: *)

CurrentName == <<"CY_P", "cy_o", "cy_s", "cy_l", "cy_e", "cy_d", "cy_n", "cy_ya", "cy_ya", "/", "cy_n", "cy_y", "cy_n", "cy_e", "cy_sh", "cy_n", "cy_ya", "cy_ya", " ", "cy_d", "cy_o", "cy_l", "cy_zh", "cy_n", "cy_o", "cy_s", "cy_t", "cy_soft">> (* Последняя/нынешняя должность *)

EmployerName == <<"CY_P", "cy_o", "cy_s", "cy_l", "cy_e", "cy_d", "cy_n", "cy_e", "cy_e", "/", "cy_n", "cy_y", "cy_n", "cy_e", "cy_sh", "cy_n", "cy_e", "cy_e", " ", "cy_m", "cy_e", "cy_s", "cy_t", "cy_o", " ", "cy_r", "cy_a", "cy_b", "cy_o", "cy_t", "cy_y">> (* Последнее/нынешнее место работы *)

TitleCells ==
    {NaN} \cup {Str(a \o b) : a \in ConcatUpTo(TitleFrags, MaxFrags - 1),
                             b \in AllKeywords \cup {<<>>}}

JobTables ==
    {Frame(RangeIndex(1), <<Column(DesiredName, <<desired>>), Column(CurrentName, <<current>>),
                            Column(EmployerName, <<Str(<<"CY_O", "CY_O", "CY_O", " ", "CY_R", "cy_o", "cy_m", "cy_a", "cy_sh", "cy_k", "cy_a">> (* ООО Ромашка *))>>)>>) :
        desired \in TitleCells, current \in {NaN, Str(<<"CY_S", "cy_i", "cy_s", "cy_t", "cy_e", "cy_m", "cy_n", "cy_y", "cy_j", " ", "cy_a", "cy_d", "cy_m", "cy_i", "cy_n", "cy_i", "cy_s", "cy_t", "cy_r", "cy_a", "cy_t", "cy_o", "cy_r">> (* Системный администратор *))}}

LocationFrags ==
    {<<"CY_M", "cy_o", "cy_s", "cy_k", "cy_v", "cy_a", ",", " ">> (* Москва,  *), <<" ", ",", " ">>, <<"cy_n", "cy_e", " ", "cy_g", "cy_o", "cy_t", "cy_o", "cy_v", " ", "cy_k", " ", "cy_p", "cy_e", "cy_r", "cy_e", "cy_e", "cy_z", "cy_d", "cy_u">> (* не готов к переезду *), <<"CY_G", "cy_o", "cy_t", "cy_o", "cy_v", " ", "cy_k", " ", "cy_p", "cy_e", "cy_r", "cy_e", "cy_e", "cy_z", "cy_d", "cy_u">> (* Готов к переезду *),
     <<"N", "o", "t", " ", "r", "e", "a", "d", "y", " ", "t", "o", " ", "r", "e", "l", "o", "c", "a", "t", "e">> (* Not ready to relocate *), <<"r", "e", "a", "d", "y", " ", "t", "o", " ", "r", "e", "l", "o", "c", "a", "t", "e">> (* ready to relocate *), <<"n", "o", "t", " ", "w", "i", "l", "l", "i", "n", "g", " ", "t", "o", " ", "r", "e", "l", "o", "c", "a", "t", "e">> (* not willing to relocate *),
     <<"w", "i", "l", "l", "i", "n", "g", " ", "t", "o", " ", "r", "e", "l", "o", "c", "a", "t", "e">> (* willing to relocate *), <<"cy_n", "cy_e", " ", "cy_g", "cy_o", "cy_t", "cy_o", "cy_v", " ", "cy_k", " ", "cy_k", "cy_o", "cy_m", "cy_a", "cy_n", "cy_d", "cy_i", "cy_r", "cy_o", "cy_v", "cy_k", "cy_a", "cy_m">> (* не готов к командировкам *), <<"cy_g", "cy_o", "cy_t", "cy_o", "cy_v", " ", "cy_k", " ", "cy_k", "cy_o", "cy_m", "cy_a", "cy_n", "cy_d", "cy_i", "cy_r", "cy_o", "cy_v", "cy_k", "cy_a", "cy_m">> (* готов к командировкам *),
     <<"cy_g", "cy_o", "cy_t", "cy_o", "cy_v", " ", "cy_k", " ", "cy_r", "cy_e", "cy_d", "cy_k", "cy_i", "cy_m", "nbsp", " ", "cy_k", "cy_o", "cy_m", "cy_a", "cy_n", "cy_d", "cy_i", "cy_r", "cy_o", "cy_v", "cy_k", "cy_a", "cy_m">> (* готов к редким<nbsp> командировкам *), <<"n", "o", "t", " ", "r", "e", "a", "d", "y", " ", "f", "o", "r", " ", "b", "u", "s", "i", "n", "e", "s", "s", " ", "t", "r", "i", "p", "s">> (* not ready for business trips *),
     <<"R", "e", "a", "d", "y", " ", "f", "o", "r", " ", "b", "u", "s", "i", "n", "e", "s", "s", " ", "t", "r", "i", "p", "s">> (* Ready for business trips *), <<"w", "i", "l", "l", "i", "n", "g", " ", "t", "o", " ", "t", "r", "a", "v", "e", "l">> (* willing to travel *)}

LocationTables ==
    {Frame(RangeIndex(1), <<Column(_CITY_COL, <<city>>)>>) :
        city \in UNION {Cells(LocationFrags, k) : k \in 0..MaxFrags}}

\* rows of the tables on which the whole chain runs: a well-formed record,
\* a record with every value missing and a record with nothing to parse
SampleRows ==
    << [unnamed |-> Str(<<"0">>), desired |-> Str(<<"P", "y", "t", "h", "o", "n", " ", "D", "e", "v", "e", "l", "o", "p", "e", "r">> (* Python Developer *)),
        current |-> Str(<<"D", "e", "v", "O", "p", "s", " ", "e", "n", "g", "i", "n", "e", "e", "r">> (* DevOps engineer *)), employer |-> Str(<<"CY_O", "CY_O", "CY_O", " ", "CY_R", "cy_o", "cy_m", "cy_a", "cy_sh", "cy_k", "cy_a">> (* ООО Ромашка *)),
        city |-> Str(<<"CY_M", "cy_o", "cy_s", "cy_k", "cy_v", "cy_a", ",", " ", "cy_g", "cy_o", "cy_t", "cy_o", "cy_v", " ", "cy_k", " ", "cy_p", "cy_e", "cy_r", "cy_e", "cy_e", "cy_z", "cy_d", "cy_u", ",", " ", "cy_g", "cy_o", "cy_t", "cy_o", "cy_v", " ", "cy_k", " ", "cy_k", "cy_o", "cy_m", "cy_a", "cy_n", "cy_d", "cy_i", "cy_r", "cy_o", "cy_v", "cy_k", "cy_a", "cy_m">> (* Москва, готов к переезду, готов к командировкам *)),
        edu |-> Str(<<"CY_V", "cy_y", "cy_s", "cy_sh", "cy_e", "cy_e", " ", "cy_o", "cy_b", "cy_r", "cy_a", "cy_z", "cy_o", "cy_v", "cy_a", "cy_n", "cy_i", "cy_e", " ", "2", "0", "1", "5", " ", "CY_M", "CY_G", "CY_U">> (* Высшее образование 2015 МГУ *)),
        salary |-> Str(<<"cy_o", "cy_t", " ", "8", "0", " ", "0", "0", "0", " ", "cy_d", "cy_o", " ", "1", "0", "0", " ", "0", "0", "0", " ", "cy_r", "cy_u", "cy_b", ".">> (* от 80 000 до 100 000 руб. *))],
       [unnamed |-> NaN, desired |-> NaN, current |-> NaN, employer |-> NaN,
        city |-> NaN, edu |-> NaN, salary |-> NaN],
       [unnamed |-> Str(<<"1">>), desired |-> Str(<<"?", "?", "?">>), current |-> Str(<<" ">>),
        employer |-> Str(<<>>), city |-> Str(<<" ", " ", ",", " ", "cy_n", "cy_e", " ", "cy_g", "cy_o", "cy_t", "cy_o", "cy_v", " ", "cy_k", " ", "cy_p", "cy_e", "cy_r", "cy_e", "cy_e", "cy_z", "cy_d", "cy_u">> (*   , не готов к переезду *)),
        edu |-> Str(<<"cy_k", "cy_u", "cy_r", "cy_s", "cy_y", " ", "1", "9", "0", "0">> (* курсы 1900 *)), salary |-> Str(<<"CY_Z", "/", "CY_P", " ", "cy_p", "cy_o", " ", "cy_d", "cy_o", "cy_g", "cy_o", "cy_v", "cy_o", "cy_r", "cy_yo", "cy_n", "cy_n", "cy_o", "cy_s", "cy_t", "cy_i">> (* З/П по договорённости *))] >>

\* column layouts: <<name, field of the sample row>>
FullLayout ==
    << <<<<"U", "n", "n", "a", "m", "e", "d", ":", " ", "0">> (* Unnamed: 0 *), "unnamed">>, <<DesiredName, "desired">>, <<CurrentName, "current">>,
       <<EmployerName, "employer">>, <<_CITY_COL, "city">>, <<_EDU_COL, "edu">>,
       <<_SALARY_COL, "salary">> >>

PaddedLayout ==
    << <<<<" ", "u", "n", "n", "a", "m", "e", "d">> (*  unnamed *), "unnamed">>, <<<<" ", "CY_I", "cy_shch", "cy_e", "cy_t", " ", " ", "cy_r", "cy_a", "cy_b", "cy_o", "cy_t", "cy_u", " ", "cy_n", "cy_a", " ", "cy_d", "cy_o", "cy_l", "cy_zh", "cy_n", "cy_o", "cy_s", "cy_t", "cy_soft", " ">> (*  Ищет  работу на должность  *), "desired">>,
       <<<<"CY_G", "cy_o", "cy_r", "cy_o", "cy_d", " ">> (* Город  *), "city">>, <<<<"tab", "CY_O", "cy_b", "cy_r", "cy_a", "cy_z", "cy_o", "cy_v", "cy_a", "cy_n", "cy_i", "cy_e", " ", "cy_i", " ", "CY_V", "CY_U", "CY_Z">> (* <tab>Образование и ВУЗ *), "edu">>, <<<<" ", "CY_Z", "CY_P", " ">> (*  ЗП  *), "salary">> >>

Without(layout, fields) == SelectSeq(layout, LAMBDA c : c[2] \notin fields)

Layouts ==
    {FullLayout, PaddedLayout, <<>>,
     Without(FullLayout, {"desired", "current"}), Without(FullLayout, {"edu"}),
     Without(FullLayout, {"city"}), Without(FullLayout, {"salary"}),
     Without(FullLayout, {"unnamed", "desired", "current", "employer", "city", "edu"})}

RowChoices == UNION {[1..n -> 1..Len(SampleRows)] : n \in 0..MaxRows}

PipelineTables ==
    {NoTable} \cup
    {Frame(RangeIndex(Len(rows)),
           [c \in 1..Len(layout) |->
               Column(layout[c][1], [i \in 1..Len(rows) |-> SampleRows[rows[i]][layout[c][2]]])]) :
        layout \in Layouts, rows \in RowChoices}

---------------------------------------------------------------------------
(* Specifications *)

Start(tables, providers) ==
    /\ df \in tables
    /\ input = df
    /\ fx \in providers
    /\ diag = [k \in {} |-> 0]
    /\ raised = NoError
    /\ ran = <<>>
    /\ trace = <<>>

Init == Start(PipelineTables, {[rates |-> FullRates, source |-> "cbr"]})

Next == CleanColumns \/ JobCategory \/ ParseEducation \/ ParseLocation \/ ParseSalary

Spec == Init /\ [][Next]_vars

InitSalary ==
    \/ Start(SalaryTables, FxTables)
    \/ Start(CurrencyTables, {[rates |-> FullRates, source |-> "cbr"]})

SpecSalary == InitSalary /\ [][ParseSalary]_vars

InitJob == Start(JobTables, {[rates |-> FullRates, source |-> "cbr"]})

SpecJob == InitJob /\ [][JobCategory]_vars

InitLocation == Start(LocationTables, {[rates |-> FullRates, source |-> "cbr"]})

SpecLocation == InitLocation /\ [][ParseLocation]_vars

---------------------------------------------------------------------------
(* Properties *)

Ran(stage) == \E i \in 1..Len(ran) : ran[i] = stage

\* the handler was called and returned
Returned(stage) ==
    \E i \in 1..Len(ran) : ran[i] = stage /\ (raised = NoError \/ i < Len(ran))

Rows == 1..NRows(df)

Cell(name, i) == GetColumn(df, name)[i]

SalaryText(i) == GetColumn(input, _SALARY_COL)[i]

\* C1: every handler, run on its own or after the handlers before it in the
\* chain, leaves the rows of the table as they were: the same row labels in
\* the same order, one cell per row in every column, and the cells of every
\* source column that is still in the table unchanged.
C1_RowsPreserved ==
    df.loaded =>
        /\ df.index = input.index
        /\ \A c \in 1..Len(df.cols) :
              /\ Len(df.cols[c].data) = Len(input.index)
              /\ \A k \in 1..Len(input.cols) :
                    Strip(input.cols[k].name) = Strip(df.cols[c].name)
                        => df.cols[c].data = input.cols[k].data

C1_Witness ==
    /\ Len(ran) = Len(Chain)
    /\ raised = NoError
    /\ NRows(df) >= 2
    /\ \E i \in Rows : IsNaN(SalaryText(i))
    /\ \E i \in Rows : SalaryText(i) = Str(<<"CY_Z", "/", "CY_P", " ", "cy_p", "cy_o", " ", "cy_d", "cy_o", "cy_g", "cy_o", "cy_v", "cy_o", "cy_r", "cy_yo", "cy_n", "cy_n", "cy_o", "cy_s", "cy_t", "cy_i">> (* З/П по договорённости *))

NegotiableMarkers == {<<"cy_d", "cy_o", "cy_g", "cy_o", "cy_v", "cy_o", "cy_r">> (* договор *), <<"cy_p", "cy_o", " ", "cy_d", "cy_o", "cy_g", "cy_o", "cy_v", "cy_o", "cy_r">> (* по договор *), <<"n", "e", "g", "o", "t", "i", "a", "b", "l", "e">> (* negotiable *)}

HoldsNegotiableMarker(v) == IsStr(v) /\ \E m \in NegotiableMarkers : Contains(Lower(v.s), m)

\* C2: after the salary handler, a row whose salary text holds a negotiable
\* marker in any letter case has a null target_salary_rub and an empty
\* salary_currency, whatever else the text holds.
C2_NegotiableExcluded ==
    Returned("parse_salary") =>
        \A i \in Rows :
            HoldsNegotiableMarker(SalaryText(i))
                => /\ IsNaN(Cell(ColTargetSalaryRub, i))
                   /\ Cell(ColSalaryCurrency, i) = Str(<<>>)

C2_Witness ==
    /\ Returned("parse_salary")
    /\ \E i \in Rows :
          /\ HoldsNegotiableMarker(SalaryText(i))
          /\ Contains(SalaryText(i).s, <<"N", "e", "g", "o", "t", "i", "a", "b", "l", "e">> (* Negotiable *))
          /\ \E p \in 1..Len(SalaryText(i).s) : IsDigit(SalaryText(i).s[p])
          /\ Contains(Lower(SalaryText(i).s), <<"e", "u", "r">>)
          /\ fx.rates = FullRates

IsLetter(c) == LowerChar(c) \in {p[2] : p \in CasePairs}

\* the letter k as a suffix of a number: after a digit, one space allowed
\* between them, and not the first letter of a longer word
HoldsKSuffix(t) ==
    \E p \in 2..Len(t) :
        /\ t[p] = "k"
        /\ IsDigit(t[p - 1]) \/ (p > 2 /\ t[p - 1] = " " /\ IsDigit(t[p - 2]))
        /\ p = Len(t) \/ ~IsLetter(t[p + 1])

HoldsThousandMarker(t) == Contains(t, <<"cy_t", "cy_y", "cy_s">> (* тыс *)) \/ HoldsKSuffix(t)

Resolved(i) == trace[i].exit \in {"no_rate", "rejected", "stored"}

\* C3: after the salary handler, the amount of a row is the resolved amount
\* times 1000 when the text holds the word "тыс" or a "k" suffix on the
\* number, and the resolved amount itself otherwise, also when a letter k
\* occurs in a currency code or in another word.
C3_ThousandScaling ==
    Returned("parse_salary") =>
        \A i \in Rows :
            Resolved(i) =>
                trace[i].amount = IF HoldsThousandMarker(Lower(trace[i].s))
                                  THEN trace[i].base * 1000
                                  ELSE trace[i].base

IsSeparator(c) == c \in {" ", "nbsp"}

InRun(c) == IsDigit(c) \/ IsSeparator(c)

\* the maximal stretches of digits and separators that hold a digit, as
\* <<first, last>> positions, and the number each one spells
Stretches(s) ==
    {b \in (1..Len(s)) \X (1..Len(s)) :
        /\ b[1] <= b[2]
        /\ \A p \in b[1]..b[2] : InRun(s[p])
        /\ b[1] = 1 \/ ~InRun(s[b[1] - 1])
        /\ b[2] = Len(s) \/ ~InRun(s[b[2] + 1])
        /\ \E p \in b[1]..b[2] : IsDigit(s[p])}

StretchValue(s, b) == ToInt(SelectSeq(SubSeq(s, b[1], b[2]), IsDigit))

RECURSIVE InOrder(_, _)
InOrder(s, stretches) ==
    IF stretches = {} THEN <<>>
    ELSE LET b == CHOOSE x \in stretches : \A y \in stretches : x[1] <= y[1]
         IN  <<StretchValue(s, b)>> \o InOrder(s, stretches \ {b})

NumbersOf(s) == InOrder(s, Stretches(s))

Examined(i) == trace[i].exit \notin {"not_str", "empty", "negotiable"}

\* C4: after the salary handler, the numbers of a row are the digit runs of
\* its text from left to right, spaces inside a run being thousands
\* separators; with no number the target is null, with one number the amount
\* is that number, with two or more it is the average of the first two
\* (amounts are held doubled).  "от 80 000 до 100 000 руб." holds 80000 and
\* 100000 and resolves to 90000.
C4_AmountResolution ==
    Returned("parse_salary") =>
        \A i \in Rows :
            /\ Examined(i) =>
                  LET nums == NumbersOf(trace[i].s)
                  IN  /\ trace[i].nums = nums
                      /\ nums = <<>> => IsNaN(Cell(ColTargetSalaryRub, i))
                      /\ nums # <<>> => Resolved(i)
                      /\ Len(nums) = 1 => trace[i].base = 2 * nums[1]
                      /\ Len(nums) >= 2 => trace[i].base = nums[1] + nums[2]
            /\ SalaryText(i) = Str(<<"cy_o", "cy_t", " ", "8", "0", " ", "0", "0", "0", " ", "cy_d", "cy_o", " ", "1", "0", "0", " ", "0", "0", "0", " ", "cy_r", "cy_u", "cy_b", ".">> (* от 80 000 до 100 000 руб. *)) =>
                  /\ trace[i].nums = <<80000, 100000>>
                  /\ trace[i].base = 2 * 90000

C4_Witness ==
    /\ Returned("parse_salary")
    /\ \E i \in Rows :
          /\ trace[i].exit = "stored"
          /\ Len(trace[i].nums) >= 3
          /\ trace[i].nums[3] # trace[i].nums[1]
          /\ \E p \in 1..Len(SalaryText(i).s) : SalaryText(i).s[p] = "nbsp"

CurrencyPriority == <<RUB, USD, EUR, KZT, BYN, UAH, UZS, GEL, AMD, AZN>>

MarkersOf ==
    (RUB :> {<<"cy_r", "cy_u", "cy_b">> (* руб *), <<"r", "u", "r">>, <<"r", "u", "b">>, <<"rouble">> (* ₽ *)}) @@ (USD :> {<<"u", "s", "d">>, <<"$">>})
    @@ (EUR :> {<<"e", "u", "r">>, <<"euro">> (* € *)}) @@ (KZT :> {<<"k", "z", "t">>, <<"cy_t", "cy_e", "cy_n", "cy_g", "cy_e">> (* тенге *)})
    @@ (BYN :> {<<"b", "y", "n">>, <<"cy_b", "cy_e", "cy_l">> (* бел *)}) @@ (UAH :> {<<"u", "a", "h">>, <<"cy_g", "cy_r", "cy_n">> (* грн *)})
    @@ (UZS :> {<<"u", "z", "s">>, <<"cy_s", "cy_u", "cy_m">> (* сум *)}) @@ (GEL :> {<<"g", "e", "l">>, <<"cy_l", "cy_a", "cy_r", "cy_i">> (* лари *)})
    @@ (AMD :> {<<"a", "m", "d">>, <<"cy_d", "cy_r", "cy_a", "cy_m">> (* драм *)}) @@ (AZN :> {<<"a", "z", "n">>, <<"cy_m", "cy_a", "cy_n", "cy_a", "cy_t">> (* манат *)})

HoldsMarkerOf(t, cur) == \E m \in MarkersOf[cur] : Contains(t, m)

FirstByPriority(t) ==
    LET held == {k \in 1..Len(CurrencyPriority) : HoldsMarkerOf(t, CurrencyPriority[k])}
    IN  IF held = {} THEN RUB
        ELSE CurrencyPriority[CHOOSE k \in held : \A j \in held : k <= j]

\* C5: after the salary handler, the currency of a row is the first one in
\* the order RUB, USD, EUR, KZT, BYN, UAH, UZS, GEL, AMD, AZN that has a
\* marker in the text, and RUB when the text holds no marker; a stored row
\* carries that code in salary_currency.
C5_CurrencyPriority ==
    Returned("parse_salary") =>
        \A i \in Rows :
            Examined(i) =>
                /\ trace[i].cur = FirstByPriority(Lower(SalaryText(i).s))
                /\ trace[i].exit = "stored"
                      => Cell(ColSalaryCurrency, i) = Str(FirstByPriority(Lower(SalaryText(i).s)))

C5_Witness ==
    /\ Returned("parse_salary")
    /\ \E i \in Rows :
          /\ trace[i].exit = "stored"
          /\ HoldsMarkerOf(Lower(SalaryText(i).s), AZN)
          /\ HoldsMarkerOf(Lower(SalaryText(i).s), GEL)
          /\ SubSeq(SalaryText(i).s, 5, 7) = <<"a", "z", "n">>
          /\ Cell(ColSalaryCurrency, i) = Str(GEL)

\* C6: after the salary handler, a row whose currency has no rate in the
\* table has a null target, the handler has not raised, and every later row
\* holds what the handler gives for that row's own text.
C6_NoRateRecovered ==
    Ran("parse_salary") /\ input.loaded /\ HasColumn(input, _SALARY_COL) =>
        /\ raised = NoError
        /\ \A i \in Rows :
              trace[i].exit = "no_rate" =>
                  /\ trace[i].cur \notin DOMAIN fx.rates
                  /\ IsNaN(Cell(ColTargetSalaryRub, i))
                  /\ \A j \in Rows :
                        j > i =>
                            /\ Cell(ColTargetSalaryRub, j)
                                   = TargetOf(SalaryRow(SalaryText(j), fx.rates))
                            /\ Cell(ColSalaryCurrency, j)
                                   = CurrOutOf(SalaryRow(SalaryText(j), fx.rates))

C6_Witness ==
    /\ Returned("parse_salary")
    /\ \E i \in Rows, j \in Rows :
          /\ i < j
          /\ trace[i].exit = "no_rate"
          /\ trace[i].cur = KZT
          /\ Cell(ColTargetSalaryRub, j) = Float(2 * 20)

\* the names of the columns as a handler finds them
SeenName(name) == IF Ran("clean_cols") THEN Strip(name) ELSE name

SeenNames == {SeenName(input.cols[k].name) : k \in 1..Len(input.cols)}

SeenDesired == \E n \in SeenNames : Contains(Lower(n), <<"cy_i", "cy_shch", "cy_e", "cy_t", " ", "cy_r", "cy_a", "cy_b", "cy_o", "cy_t", "cy_u", " ", "cy_n", "cy_a", " ", "cy_d", "cy_o", "cy_l", "cy_zh", "cy_n", "cy_o", "cy_s", "cy_t", "cy_soft">> (* ищет работу на должность *))

SeenCurrentTitle == \E n \in SeenNames : Contains(Lower(n), <<"cy_n", "cy_y", "cy_n", "cy_e", "cy_sh", "cy_n", "cy_ya", "cy_ya", " ", "cy_d", "cy_o", "cy_l", "cy_zh", "cy_n", "cy_o", "cy_s", "cy_t">> (* нынешняя должност *))

SeenEdu == <<"CY_O", "cy_b", "cy_r", "cy_a", "cy_z", "cy_o", "cy_v", "cy_a", "cy_n", "cy_i", "cy_e", " ", "cy_i", " ", "CY_V", "CY_U", "CY_Z">> (* Образование и ВУЗ *) \in SeenNames

SeenCity == <<"CY_G", "cy_o", "cy_r", "cy_o", "cy_d">> (* Город *) \in SeenNames

SeenSalary == <<"CY_Z", "CY_P">> (* ЗП *) \in SeenNames

AllCells(name, v) == HasColumn(df, name) /\ \A i \in Rows : Cell(name, i) = v

\* C7: a handler raises when the context holds no table, the salary handler
\* raises when the column ЗП is missing, and nothing else ends a run; a
\* handler that does not find its title, education or city column returns
\* with its derived columns holding the defaults in every row.
C7_OnlyPreconditionsRaise ==
    /\ ~input.loaded /\ ran # <<>> => raised = NotLoaded /\ Len(ran) = 1
    /\ input.loaded /\ Ran("parse_salary") /\ ~SeenSalary => raised = NoSalaryColumn
    /\ raised # NoError =>
          \/ ~input.loaded /\ raised = NotLoaded
          \/ ran[Len(ran)] = "parse_salary" /\ ~SeenSalary /\ raised = NoSalaryColumn
    /\ input.loaded =>
          /\ Ran("job_category") /\ ~SeenDesired
                => AllCells(ColJobCategory, Str(<<"CY_N", "cy_e", " ", "cy_u", "cy_k", "cy_a", "cy_z", "cy_a", "cy_n", "cy_o">> (* Не указано *)))
          /\ Ran("job_category") /\ ~SeenCurrentTitle
                => AllCells(ColCurrentJobCategory, Str(<<"CY_N", "cy_e", " ", "cy_u", "cy_k", "cy_a", "cy_z", "cy_a", "cy_n", "cy_o">> (* Не указано *)))
          /\ Ran("parse_education") /\ ~SeenEdu
                => /\ AllCells(ColEducationLevel, Str(<<"CY_N", "cy_e", " ", "cy_u", "cy_k", "cy_a", "cy_z", "cy_a", "cy_n", "cy_o">> (* Не указано *)))
                   /\ AllCells(ColEducationYear, NaN)
          /\ Ran("parse_location") /\ ~SeenCity
                => /\ AllCells(ColCity, Str(<<"CY_N", "cy_e", " ", "cy_u", "cy_k", "cy_a", "cy_z", "cy_a", "cy_n", "cy_o">> (* Не указано *)))
                   /\ AllCells(ColRelocateReady, Bool(FALSE))
                   /\ AllCells(ColTripsReady, Bool(FALSE))

C7_Witness ==
    /\ Len(ran) = Len(Chain)
    /\ raised = NoError
    /\ NRows(df) >= 2
    /\ ~SeenDesired /\ ~SeenCurrentTitle
    /\ ~SeenEdu /\ ~SeenCity
    /\ AllCells(ColEducationLevel, Str(<<"CY_N", "cy_e", " ", "cy_u", "cy_k", "cy_a", "cy_z", "cy_a", "cy_n", "cy_o">> (* Не указано *)))
    /\ \E i \in Rows : ~IsNaN(Cell(ColTargetSalaryRub, i))

RuleHit(t, k) == \E w \in CategoryRules[k][1] : Contains(t, w)

FirstRuleLabel(title) ==
    LET t    == IF IsStr(title) THEN Lower(normalize_spaces(title.s)) ELSE <<>>
        hits == {k \in 1..Len(CategoryRules) : RuleHit(t, k)}
    IN  IF t = <<>> THEN <<"CY_N", "cy_e", " ", "cy_u", "cy_k", "cy_a", "cy_z", "cy_a", "cy_n", "cy_o">> (* Не указано *)
        ELSE IF hits = {} THEN <<"CY_P", "cy_r", "cy_o", "cy_ch", "cy_e", "cy_e">> (* Прочее *)
        ELSE CategoryRules[CHOOSE k \in hits : \A j \in hits : k <= j][2]

\* C8: after the job category handler, job_category and current_job_category
\* hold, for each row, the label of the first rule in the fixed order that
\* has a keyword in the lower-cased, whitespace-collapsed title, "Не указано"
\* for a missing or empty title and "Прочее" for a title no rule matches; a
\* title holding "developer" and "devops", and no keyword of the one rule
\* before them, is "DevOps/SRE".
C8_FirstRuleWins ==
    Returned("job_category") =>
        \A i \in Rows :
            LET desired == GetColumn(input, DesiredName)[i]
                current == GetColumn(input, CurrentName)[i]
            IN  /\ Cell(ColJobCategory, i) = Str(FirstRuleLabel(desired))
                /\ Cell(ColCurrentJobCategory, i) = Str(FirstRuleLabel(current))
                /\ IsStr(desired) /\ Contains(Lower(desired.s), <<"d", "e", "v", "e", "l", "o", "p", "e", "r">> (* developer *))
                      /\ Contains(Lower(desired.s), <<"d", "e", "v", "o", "p", "s">>)
                      /\ ~RuleHit(Lower(normalize_spaces(desired.s)), 1)
                      => Cell(ColJobCategory, i) = Str(<<"D", "e", "v", "O", "p", "s", "/", "S", "R", "E">> (* DevOps/SRE *))

C8_Witness ==
    /\ Returned("job_category")
    /\ \E i \in Rows :
          /\ GetColumn(input, DesiredName)[i] = Str(<<"D", "e", "v", "e", "l", "o", "p", "e", "r", " ", "d", "e", "v", "o", "p", "s">> (* Developer devops *))
          /\ Cell(ColJobCategory, i) = Str(<<"D", "e", "v", "O", "p", "s", "/", "S", "R", "E">> (* DevOps/SRE *))

RelocateNo == {<<"cy_n", "cy_e", " ", "cy_g", "cy_o", "cy_t", "cy_o", "cy_v", " ", "cy_k", " ", "cy_p", "cy_e", "cy_r", "cy_e", "cy_e", "cy_z", "cy_d", "cy_u">> (* не готов к переезду *), <<"n", "o", "t", " ", "r", "e", "a", "d", "y", " ", "t", "o", " ", "r", "e", "l", "o", "c", "a", "t", "e">> (* not ready to relocate *), <<"n", "o", "t", " ", "w", "i", "l", "l", "i", "n", "g", " ", "t", "o", " ", "r", "e", "l", "o", "c", "a", "t", "e">> (* not willing to relocate *)}

RelocateYes == {<<"cy_g", "cy_o", "cy_t", "cy_o", "cy_v", " ", "cy_k", " ", "cy_p", "cy_e", "cy_r", "cy_e", "cy_e", "cy_z", "cy_d", "cy_u">> (* готов к переезду *), <<"r", "e", "a", "d", "y", " ", "t", "o", " ", "r", "e", "l", "o", "c", "a", "t", "e">> (* ready to relocate *), <<"w", "i", "l", "l", "i", "n", "g", " ", "t", "o", " ", "r", "e", "l", "o", "c", "a", "t", "e">> (* willing to relocate *)}

TripsNo == {<<"cy_n", "cy_e", " ", "cy_g", "cy_o", "cy_t", "cy_o", "cy_v", " ", "cy_k", " ", "cy_k", "cy_o", "cy_m", "cy_a", "cy_n", "cy_d", "cy_i", "cy_r", "cy_o", "cy_v", "cy_k", "cy_a", "cy_m">> (* не готов к командировкам *), <<"n", "o", "t", " ", "r", "e", "a", "d", "y", " ", "f", "o", "r", " ", "b", "u", "s", "i", "n", "e", "s", "s", " ", "t", "r", "i", "p", "s">> (* not ready for business trips *)}

TripsYes ==
    {<<"cy_g", "cy_o", "cy_t", "cy_o", "cy_v", " ", "cy_k", " ", "cy_k", "cy_o", "cy_m", "cy_a", "cy_n", "cy_d", "cy_i", "cy_r", "cy_o", "cy_v", "cy_k", "cy_a", "cy_m">> (* готов к командировкам *), <<"cy_g", "cy_o", "cy_t", "cy_o", "cy_v", " ", "cy_k", " ", "cy_r", "cy_e", "cy_d", "cy_k", "cy_i", "cy_m", " ", "cy_k", "cy_o", "cy_m", "cy_a", "cy_n", "cy_d", "cy_i", "cy_r", "cy_o", "cy_v", "cy_k", "cy_a", "cy_m">> (* готов к редким командировкам *), <<"r", "e", "a", "d", "y", " ", "f", "o", "r", " ", "b", "u", "s", "i", "n", "e", "s", "s", " ", "t", "r", "i", "p", "s">> (* ready for business trips *),
     <<"w", "i", "l", "l", "i", "n", "g", " ", "t", "o", " ", "t", "r", "a", "v", "e", "l">> (* willing to travel *)}

Holds(v, phrases) ==
    IsStr(v) /\ \E p \in phrases : Contains(Lower(normalize_spaces(v.s)), p)

FlagRule(v, no, yes, flag) ==
    /\ Holds(v, no) => flag = Bool(FALSE)
    /\ Holds(v, yes) /\ ~Holds(v, no) => flag = Bool(TRUE)
    /\ ~Holds(v, yes) /\ ~Holds(v, no) => flag = Bool(FALSE)

\* C9: after the location handler, relocate_ready and trips_ready are false
\* for a text holding a negative phrase of the flag, also when it holds a
\* positive phrase as well, true for a text holding a positive phrase and no
\* negative one, and false for a text holding neither.
C9_NegativeFirst ==
    Returned("parse_location") =>
        \A i \in Rows :
            LET v == GetColumn(input, _CITY_COL)[i]
            IN  /\ FlagRule(v, RelocateNo, RelocateYes, Cell(ColRelocateReady, i))
                /\ FlagRule(v, TripsNo, TripsYes, Cell(ColTripsReady, i))

C9_Witness ==
    /\ Returned("parse_location")
    /\ \E i \in Rows :
          LET v == GetColumn(input, _CITY_COL)[i]
          IN  /\ Holds(v, {<<"n", "o", "t", " ", "r", "e", "a", "d", "y", " ", "t", "o", " ", "r", "e", "l", "o", "c", "a", "t", "e">> (* not ready to relocate *)})
              /\ Holds(v, {<<"w", "i", "l", "l", "i", "n", "g", " ", "t", "o", " ", "r", "e", "l", "o", "c", "a", "t", "e">> (* willing to relocate *)})
              /\ ~Holds(v, {<<"n", "o", "t", " ", "w", "i", "l", "l", "i", "n", "g", " ", "t", "o", " ", "r", "e", "l", "o", "c", "a", "t", "e">> (* not willing to relocate *)})
              /\ Cell(ColRelocateReady, i) = Bool(FALSE)
              /\ Cell(ColTripsReady, i) = Bool(FALSE)

\* C10: after the salary handler, every row has either a null target and an
\* empty salary_currency, or a target above zero and the code of its
\* currency in salary_currency.
C10_PositiveOrNull ==
    Returned("parse_salary") =>
        \A i \in Rows :
            LET target == Cell(ColTargetSalaryRub, i)
                code   == Cell(ColSalaryCurrency, i)
            IN  \/ IsNaN(target) /\ code = Str(<<>>)
                \/ /\ target.kind = "float"
                   /\ target.twice > 0
                   /\ code = Str(FirstByPriority(Lower(SalaryText(i).s)))

C10_Witness ==
    /\ Returned("parse_salary")
    /\ \E i \in Rows, j \in Rows :
          /\ trace[i].exit = "rejected"
          /\ trace[i].rub = 0
          /\ IsNaN(Cell(ColTargetSalaryRub, i))
          /\ trace[j].exit = "stored"

NullRows == {i \in Rows : IsNaN(Cell(ColTargetSalaryRub, i))}

\* the k-th null row, counting in row order
NullRow(k) == CHOOSE i \in NullRows : Cardinality({j \in NullRows : j < i}) = k - 1

Examples == IF "nan_target_examples" \in DOMAIN diag THEN diag["nan_target_examples"] ELSE <<>>

\* the count of null rows and the sample, each entry carrying its row and text
NullRowsSampled ==
    /\ diag["rows_with_nan_target"] = Cardinality(NullRows)
    /\ Len(Examples) = (IF Cardinality(NullRows) < 20 THEN Cardinality(NullRows) ELSE 20)
    /\ \A k \in 1..Len(Examples) :
          /\ Examples[k].index = df.index[NullRow(k)]
          /\ Examples[k].salary = SalaryText(NullRow(k))

\* C11: after the salary handler, the diagnostics hold the number of rows
\* with a null target and a sample of at most 20 of them in row order, each
\* entry giving the row's salary text and the currency detected for the row.
C11_NullSample ==
    Returned("parse_salary") =>
        /\ NullRowsSampled
        /\ \A k \in 1..Len(Examples) :
              Examined(NullRow(k))
                  => Examples[k].salary_currency
                         = Str(FirstByPriority(Lower(SalaryText(NullRow(k)).s)))

\* C12: after the salary handler, target_zeros is the number of rows whose
\* converted amount was exactly zero before the non-positive results were
\* rejected.
C12_ZerosBeforeRejection ==
    Returned("parse_salary") =>
        diag["target_zeros"]
            = Cardinality({i \in Rows : trace[i].exit \in {"rejected", "stored"}
                                           /\ trace[i].rub = 0})

====
